---- MODULE Spec2Model ----
(***************************************************************************)
(* mcp-android-ssh: the session lifecycle and command-execution engine.    *)
(*                                                                         *)
(* AndroidSshService (src/src/tools.rs) keeps one Option<SshClient> behind *)
(* a tokio Mutex; SshClient (src/src/ssh/client.rs) keeps one              *)
(* Option<Handle> (the session).  A request (execute / execute_read) takes *)
(* the lock, validates, and runs SshClient::execute_command, which is      *)
(* ensure_connected() followed by exec_command_inner() under a deadline.   *)
(*                                                                         *)
(* One action of the model is one stretch of a handler between two await   *)
(* points.  The remote side, the clock and the outcomes of the russh calls *)
(* are the environment: they are chosen with \E.                           *)
(***************************************************************************)
EXTENDS Integers, Sequences, FiniteSets, TLC

(***************************************************************************)
(* Bounds of the model.                                                    *)
(***************************************************************************)
\* tool calls (requests) made in one behaviour; any number of them may be
\* in flight at once
MaxCalls == 2
\* channel messages delivered to one drain before the channel ends
MaxEvents == 2
\* length of the command strings the gate is applied to on its own
MaxLen == 4

(***************************************************************************)
(* Program constants.                                                      *)
(***************************************************************************)
MAX_RETRIES == 3
\* seconds
RETRY_DELAY == 2
default_timeout == 30
\* the largest timeout the tools accept
MAX_TIMEOUT == 300
\* SSH_EXTENDED_DATA_STDERR
EXT_STDERR == 1
\* port.unwrap_or(8022)
default_port == 8022

\* request ids
Requests == 1..MaxCalls

\* Option<T>: None, Some(x)
None == <<>>
Some(x) == <<x>>
Unwrap(o) == o[1]

(***************************************************************************)
(* Inputs.                                                                 *)
(***************************************************************************)
\* "ls -la /sdcard", "rm -rf /sdcard" and "" as character sequences
cmd_ls == <<"l","s"," ","-","l","a"," ","/","s","d","c","a","r","d">>
cmd_rm == <<"r","m"," ","-","r","f"," ","/","s","d","c","a","r","d">>
cmd_empty == <<>>
Commands == {cmd_ls, cmd_rm, cmd_empty}

Tools == {"execute_read", "execute"}

\* the `timeout` field of a request as sent: omitted, or a u64
TimeoutInputs == {None} \cup {Some(t) : t \in {0, 1, MAX_TIMEOUT, MAX_TIMEOUT + 1}}

\* descriptors Config::validate accepts: at least one credential
ValidConfigs ==
    {c \in [key_path : BOOLEAN, password : BOOLEAN] : c.key_path \/ c.password}

\* every descriptor SshClient::new can be given
AnyConfigs == [key_path : BOOLEAN, password : BOOLEAN]

\* SetupRequest values: nothing given, a complete key setup, a complete
\* password setup, and a partial update of the host
SetupRequests ==
    {[host |-> None, port |-> None, user |-> None, key_path |-> None,
      password |-> None],
     [host |-> Some("192.168.1.101"), port |-> None, user |-> Some("u0_a555"),
      key_path |-> Some("~/.ssh/id_ed25519"), password |-> None],
     [host |-> Some("192.168.1.101"), port |-> None, user |-> Some("u0_a555"),
      key_path |-> None, password |-> Some("secret")],
     [host |-> Some("192.168.1.101"), port |-> None, user |-> None,
      key_path |-> None, password |-> None]}

\* Config::save(&config): Ok(path) or Err(e)
SaveOutcomes == {"saved", "save_error"}

(***************************************************************************)
(* Environment: what the russh calls can answer.                           *)
(***************************************************************************)
\* causes of a failed client::connect
TransportFailures == {"refused", "unreachable"}

\* try_key_auth: Ok(true), Ok(false), or Err(e)
KeyAuthOutcomes == {"accepted", "rejected", "io_error", "load_error", "auth_error"}

\* try_password_auth: Ok(true), Ok(false), or Err(e)
PasswordAuthOutcomes == {"accepted", "rejected", "auth_error"}

\* a u32 as its two 16-bit halves <<high, low>>: the value is high * 2^16 + low
U32(high, low) == <<high, low>>

\* exit_status values (u32) a remote can report: 0, 127 and 4294967295
ExitStatuses == {U32(0, 0), U32(0, 127), U32(65535, 65535)}

\* ChannelMsg values channel.wait() can deliver
ChannelMsgs ==
    {[msg |-> "Data", data |-> d] : d \in {<<104>>, <<10>>}}
    \cup {[msg |-> "ExtendedData", data |-> <<101>>, ext |-> e] : e \in {EXT_STDERR, 2}}
    \cup {[msg |-> "ExitStatus", exit_status |-> s] : s \in ExitStatuses}
    \cup {[msg |-> "Eof"], [msg |-> "WindowAdjusted"]}

VARIABLES
    ssh_client,   \* Option<SshClient>: None, or the client's config
    session,      \* SshClient.session: None, or the id of the held handle
    is_closed,    \* whether the held handle reports itself closed
    permits,      \* permits of the tokio Mutex around ssh_client (1 = free)
    waiters,      \* requests queued in lock().await, in arrival order
    pc,           \* where each request is
    request,      \* each request's ExecuteRequest and tool
    conn,         \* locals of connect(): attempt, last_error
    chan,         \* locals of exec_command_inner(): stdout, stderr, exit_code, got_eof
    expired,      \* whether the deadline of the request's timeout() has passed
    hist,         \* per request, what its call has done so far
    calls,        \* tool calls made so far
    sessions,     \* sessions established so far
    returned,     \* what returned in the latest step, if something did: a
                  \* handler (fn "handler") or a successful connect()
    config_file   \* the Config that ~/.config/mcp-android-ssh/config.toml holds

vars == <<ssh_client, session, is_closed, permits, waiters, pc, request, conn,
          chan, expired, hist, calls, sessions, returned, config_file>>

\* what Config::load_existing().ok() can give: no readable config, or the one
\* on disk
ExistingConfigs == {None, Some(config_file)}

\* the Config of default_template(), which ensure_config_exists writes when
\* there is no config file
default_template ==
    [host |-> "192.168.1.100", port |-> default_port, user |-> "u0_a555",
     key_path |-> Some("~/.ssh/id_ed25519"), password |-> None]

\* what the config file holds when main() starts the service with client:
\* the template just written when Config::load() gave none, or else a file
\* that names the authentication methods of the loaded descriptor
config_on_disk(client) ==
    IF client = None THEN default_template
    ELSE [default_template EXCEPT
             !.key_path = IF Unwrap(client).key_path
                          THEN Some("~/.ssh/id_ed25519") ELSE None,
             !.password = IF Unwrap(client).password THEN Some("secret") ELSE None]

(***************************************************************************)
(* Values.                                                                 *)
(***************************************************************************)
\* SshMcpError
SshConnection(detail) == [kind |-> "SshConnection", detail |-> <<detail>>]
CommandExecution(detail) == [kind |-> "CommandExecution", detail |-> <<detail>>]
Authentication(detail) == [kind |-> "Authentication", detail |-> <<detail>>]
\* "Command timed out after {timeout_secs} seconds"
Timeout(timeout_secs) ==
    [kind |-> "Timeout",
     detail |-> <<"Command timed out after", timeout_secs, "seconds">>]

\* exit_status as i32: the same 32 bits read as two's complement, so a u32
\* above i32::MAX comes out as u - 2^32
AsI32(u) == (IF u[1] >= 32768 THEN u[1] - 65536 ELSE u[1]) * 65536 + u[2]

\* String::from_utf8_lossy over the bytes the model delivers: ASCII is kept,
\* a two-byte sequence is decoded, any other byte becomes U+FFFD
RECURSIVE from_utf8_lossy(_)
from_utf8_lossy(bytes) ==
    IF bytes = <<>> THEN <<>>
    ELSE LET b == Head(bytes) IN
         IF b < 128 THEN <<b>> \o from_utf8_lossy(Tail(bytes))
         ELSE IF /\ b >= 194 /\ b <= 223 /\ Len(bytes) >= 2
                 /\ bytes[2] >= 128 /\ bytes[2] <= 191
              THEN <<(b - 192) * 64 + (bytes[2] - 128)>>
                       \o from_utf8_lossy(Tail(Tail(bytes)))
              ELSE <<65533>> \o from_utf8_lossy(Tail(bytes))

CommandResult_status_required(c) ==
    [stdout |-> from_utf8_lossy(c.stdout),
     stderr |-> from_utf8_lossy(c.stderr),
     exit_code |-> IF c.exit_code = None THEN 1 ELSE Unwrap(c.exit_code)]

\* exit_code.unwrap_or(0), and the lossy decoding of the accumulated bytes
CommandResult(c) ==
    [stdout |-> from_utf8_lossy(c.stdout),
     stderr |-> from_utf8_lossy(c.stderr),
     exit_code |-> IF c.exit_code = None THEN 0 ELSE Unwrap(c.exit_code)]

\* text as code points
NEWLINE == <<10>>
\* "stderr:\n"
STDERR_LABEL == <<115, 116, 100, 101, 114, 114, 58, 10>>
\* "\u{2713} Success"
SUCCESS_LINE == <<10003, 32, 83, 117, 99, 99, 101, 115, 115>>
\* "\u{2717} Failed (exit code: " and ")"
FAILED_OPEN == <<10007, 32, 70, 97, 105, 108, 101, 100, 32, 40, 101, 120, 105,
                 116, 32, 99, 111, 100, 101, 58, 32>>
FAILED_CLOSE == <<41>>

\* the decimal digits of n >= 0
RECURSIVE Digits(_)
Digits(n) ==
    IF n < 10 THEN <<48 + n>> ELSE Digits(n \div 10) \o <<48 + (n % 10)>>

\* format!("{}", n) of an i32
Display(n) == IF n < 0 THEN <<45>> \o Digits(0 - n) ELSE Digits(n)

\* output.ends_with('\n')
ends_with_newline(output) == output # <<>> /\ output[Len(output)] = 10

\* if !output.ends_with('\n') { output.push('\n') }
terminated(output) ==
    IF ends_with_newline(output) THEN output ELSE output \o NEWLINE

\* if !output.is_empty() { output.push('\n') }
separated(output) == IF output # <<>> THEN output \o NEWLINE ELSE output

render_unterminated(result) ==
    result.stdout \o result.stderr \o
    (IF result.exit_code = 0 THEN SUCCESS_LINE
     ELSE FAILED_OPEN \o Display(result.exit_code) \o FAILED_CLOSE)

\* the Ok(result) arm of the handlers: the text built in `output`
render(result) ==
    LET with_stdout ==
            IF result.stdout # <<>> THEN terminated(result.stdout) ELSE <<>>
        with_stderr ==
            IF result.stderr # <<>>
            THEN terminated(separated(with_stdout) \o STDERR_LABEL \o result.stderr)
            ELSE with_stdout
    IN  separated(with_stderr) \o
        (IF result.exit_code = 0 THEN SUCCESS_LINE
         ELSE FAILED_OPEN \o Display(result.exit_code) \o FAILED_CLOSE)

\* CallToolResult::success / CallToolResult::error
ToolSuccess(cr) ==
    [is_error |-> FALSE, kind |-> "CommandResult", stdout |-> cr.stdout,
     stderr |-> cr.stderr, exit_code |-> cr.exit_code, text |-> render(cr)]
ToolError(kind, detail) == [is_error |-> TRUE, kind |-> kind, detail |-> detail]
\* Ok(())
Ok == [is_error |-> FALSE, kind |-> "Ok"]
\* ExecuteRequest and the tool it came to; sent is the timeout field as the
\* caller sent it, timeout what #[serde(default = "default_timeout")] made of it
NoRequest == [tool |-> "none", command |-> <<>>, timeout |-> 0, sent |-> None]

NoConn == [attempt |-> 0, last_error |-> None]
NoChan == [stdout |-> <<>>, stderr |-> <<>>, exit_code |-> None, got_eof |-> FALSE]

\* what a call has done: the slot ensure_connected looked at (seen), calls of
\* connect(), calls of try_connect (tries), transports opened (opens), seconds
\* slept between attempts (slept), the error of the latest failed attempt, the
\* session its connect() established (made), channel messages consumed (drained),
\* the authentication methods the latest attempt has called (methods) and how
\* those of them that did not authenticate came back (failed), the
\* latest exit_status delivered as the remote sent it (status), and, when the
\* drain is over, what ended it (last: the message the loop broke on, or the
\* channel's None) and the locals of exec_command_inner at that point; the
\* calls of channel_open_session (channels) and of channel.exec (execs)
NoHist ==
    [seen |-> None, connects |-> 0, tries |-> 0, opens |-> 0, slept |-> 0,
     attempt_error |-> None, made |-> None, drained |-> 0, methods |-> <<>>,
     failed |-> <<>>,
     status |-> None, last |-> None, locals |-> None,
     channels |-> 0, execs |-> 0]

\* channel.wait() returned None
ChannelEnd == [msg |-> "None"]

(***************************************************************************)
(* The invocation gate.                                                    *)
(***************************************************************************)
READ_ONLY_COMMANDS ==
    {"ls", "cat", "head", "tail", "less", "more", "grep", "rg", "find", "fd",
     "tree", "bat", "eza", "exa", "locate",
     "cd", "pwd", "readlink", "realpath", "basename", "dirname",
     "whoami", "id", "groups", "which", "whereis", "type", "hostname", "uname",
     "date", "uptime",
     "echo", "printf",
     "ps", "top", "htop", "btop", "lsof",
     "df", "du", "lsblk", "blkid", "stat", "file",
     "free", "vmstat", "iostat", "iotop", "lsmem", "lshw", "lscpu",
     "netstat", "ss", "ping", "traceroute", "nslookup", "dig", "host",
     "wc", "sort", "uniq", "cut", "paste", "tr", "column",
     "diff", "cmp", "comm",
     "md5sum", "sha1sum", "sha256sum", "sha512sum",
     "env", "printenv", "getent", "getconf",
     "xxd", "hexdump", "od", "strings",
     "zcat", "bzcat", "xzcat", "gunzip", "bunzip2", "unxz",
     "jq", "yq", "xmllint",
     "journalctl",
     "lsmod", "modinfo", "lspci", "lsusb",
     "history", "alias",
     "fc-list", "fc-match",
     "test", "true", "false"}

\* the names the instructions of get_info list under "Whitelisted commands"
INSTRUCTIONS_WHITELIST ==
    {"ls", "cat", "head", "tail", "less", "more", "grep", "rg", "find",
     "fd", "tree", "bat", "eza", "exa", "locate",
     "cd", "pwd", "readlink", "realpath", "basename", "dirname",
     "whoami", "id", "groups", "which", "whereis", "type", "hostname",
     "uname", "date", "uptime",
     "echo", "printf",
     "ps", "top", "htop", "btop", "lsof",
     "df", "du", "lsblk", "blkid", "stat", "file",
     "free", "vmstat", "iostat", "iotop", "lsmem", "lshw", "lscpu",
     "netstat", "ss", "ping", "traceroute", "nslookup", "dig", "host",
     "wc", "sort", "uniq", "cut", "paste", "tr", "column",
     "diff", "cmp", "comm",
     "md5sum", "sha1sum", "sha256sum", "sha512sum",
     "env", "printenv", "getent", "getconf",
     "xxd", "hexdump", "od", "strings",
     "zcat", "bzcat", "xzcat", "gunzip", "bunzip2", "unxz",
     "jq", "yq", "xmllint",
     "journalctl",
     "lsmod", "modinfo", "lspci", "lsusb",
     "history", "alias",
     "fc-list", "fc-match",
     "test", "true", "false"}

\* "Whitelisted commands (81 total)", "(81 whitelisted commands)"
WHITELIST_TOTAL == 81

Whitespace == {" ", "\t", "\n", "\r"}

RECURSIVE SkipWhitespace(_)
SkipWhitespace(s) ==
    IF s # <<>> /\ Head(s) \in Whitespace THEN SkipWhitespace(Tail(s)) ELSE s

RECURSIVE TakeToken(_)
TakeToken(s) ==
    IF s = <<>> \/ Head(s) \in Whitespace THEN ""
    ELSE Head(s) \o TakeToken(Tail(s))

FirstToken_untrimmed(command) == TakeToken(command)

\* command.split_whitespace().next().unwrap_or("")
FirstToken(command) == TakeToken(SkipWhitespace(command))

is_read_only_unchecked(command) == TRUE

\* READ_ONLY_COMMANDS.contains(&cmd_name)
is_read_only(command) == FirstToken(command) \in READ_ONLY_COMMANDS

(***************************************************************************)
(* Initial state: AndroidSshService::new(config).                          *)
(***************************************************************************)
InitWith_eager(clients) ==
    /\ ssh_client \in clients
    /\ session = IF ssh_client = None THEN None ELSE Some(1)
    /\ is_closed = FALSE
    /\ permits = 1
    /\ waiters = <<>>
    /\ pc = [r \in Requests |-> "idle"]
    /\ request = [r \in Requests |-> NoRequest]
    /\ conn = [r \in Requests |-> NoConn]
    /\ chan = [r \in Requests |-> NoChan]
    /\ expired = [r \in Requests |-> FALSE]
    /\ hist = [r \in Requests |-> NoHist]
    /\ calls = 0
    /\ sessions = IF ssh_client = None THEN 0 ELSE 1
    /\ returned = None
    /\ config_file = config_on_disk(ssh_client)

InitWith(clients) ==
    /\ ssh_client \in clients
    /\ session = None
    /\ is_closed = FALSE
    /\ permits = 1
    /\ waiters = <<>>
    /\ pc = [r \in Requests |-> "idle"]
    /\ request = [r \in Requests |-> NoRequest]
    /\ conn = [r \in Requests |-> NoConn]
    /\ chan = [r \in Requests |-> NoChan]
    /\ expired = [r \in Requests |-> FALSE]
    /\ hist = [r \in Requests |-> NoHist]
    /\ calls = 0
    /\ sessions = 0
    /\ returned = None
    /\ config_file = config_on_disk(ssh_client)

\* main(): Config::load() gave a config that passed Config::validate, or none
Init == InitWith({Some(c) : c \in ValidConfigs} \cup {None})

\* SshClient::new(config) with any descriptor
InitAnyDescriptor == InitWith({Some(c) : c \in AnyConfigs})

(***************************************************************************)
(* The lock around ssh_client (tokio::sync::Mutex: one permit, FIFO).      *)
(***************************************************************************)
ExecPcs == {"channel_open", "exec", "drain"}
ConnectPcs == {"transport", "key_auth", "password_auth", "sleep"}

\* inside SshClient::disconnect, at the await of the close notification
ClosePcs == {"disconnect"}

\* r is between lock().await returning and its guard being dropped
HoldsGuard(r) == pc[r] \in ConnectPcs \cup ExecPcs \cup ClosePcs

LockAcquireUnguarded(r) == waiters # <<>> /\ Head(waiters) = r

\* self.ssh_client.lock().await returns for r
LockAcquire(r) == permits > 0 /\ waiters # <<>> /\ Head(waiters) = r

(***************************************************************************)
(* Returning from a handler: the result goes to the caller, the locals and *)
(* the guard are dropped.                                                  *)
(***************************************************************************)
Returns(r, req, res, h) ==
    /\ pc' = [pc EXCEPT ![r] = "done"]
    /\ returned' = Some([fn |-> "handler", request |-> r, req |-> req,
                         result |-> res, hist |-> h])
    /\ request' = [request EXCEPT ![r] = NoRequest]
    /\ conn' = [conn EXCEPT ![r] = NoConn]
    /\ chan' = [chan EXCEPT ![r] = NoChan]
    /\ expired' = [expired EXCEPT ![r] = FALSE]
    /\ hist' = [hist EXCEPT ![r] = NoHist]

\* execute_command returned Err(e): "Command execution failed: {e}"
ReturnsErr(r, e, h) == Returns(r, request[r], ToolError(e.kind, e.detail), h)

(***************************************************************************)
(* SshClient::connect and try_connect.                                     *)
(***************************************************************************)
record_error_first(last_error, e) ==
    IF last_error = None THEN Some(e) ELSE last_error

\* last_error = Some(e)
record_error(last_error, e) == Some(e)

connect_exhausted_generic(last_error) ==
    SshConnection("Failed to connect after retries")

\* last_error.unwrap_or_else(|| SshConnection("Failed to connect after retries"))
connect_exhausted(last_error) ==
    IF last_error = None
    THEN SshConnection("Failed to connect after retries")
    ELSE Unwrap(last_error)

should_retry_always(attempt) == attempt <= MAX_RETRIES

\* if attempt < MAX_RETRIES { sleep(RETRY_DELAY) }, and the loop goes on
should_retry(attempt) == attempt < MAX_RETRIES

\* connect() is entered by r: the first attempt starts
connect(r, h) ==
    /\ conn' = [conn EXCEPT ![r] = [attempt |-> 1, last_error |-> None]]
    /\ pc' = [pc EXCEPT ![r] = "transport"]
    /\ hist' = [hist EXCEPT ![r] = [h EXCEPT !.connects = @ + 1]]
    /\ returned' = None
    /\ UNCHANGED <<chan, expired>>

\* try_connect returned Err(e) to connect(): the session slot is as it was
attempt_failed(r, e, h) ==
    LET last_error == record_error(conn[r].last_error, e)
        h1 == [h EXCEPT !.attempt_error = Some(e)]
    IN  /\ UNCHANGED <<session, is_closed, sessions>>
        /\ IF should_retry(conn[r].attempt)
           THEN /\ conn' = [conn EXCEPT ![r].last_error = last_error]
                /\ pc' = [pc EXCEPT ![r] = "sleep"]
                /\ hist' = [hist EXCEPT ![r] = [h1 EXCEPT !.slept = @ + RETRY_DELAY]]
                /\ returned' = None
                /\ UNCHANGED <<chan, request, expired, permits>>
           ELSE /\ ReturnsErr(r, connect_exhausted(last_error), h1)
                /\ permits' = permits + 1

\* exec_command_inner calls session.channel_open_session()
opens_channel(h) == [h EXCEPT !.channels = @ + 1]

\* exec_command_inner calls channel.exec(true, command)
sends_exec(h) == [h EXCEPT !.execs = @ + 1]

\* what a call keeps of its connect(): the session it made
after_connect(h, id) ==
    [NoHist EXCEPT !.seen = h.seen, !.connects = h.connects, !.made = Some(id)]

attempt_succeeded_unstored(r, h) ==
    /\ sessions' = sessions + 1
    /\ UNCHANGED <<session, is_closed>>
    /\ pc' = [pc EXCEPT ![r] = "channel_open"]
    /\ conn' = [conn EXCEPT ![r] = NoConn]
    /\ hist' = [hist EXCEPT ![r] = opens_channel(after_connect(h, sessions + 1))]
    /\ returned' = Some([fn |-> "connect", request |-> r, req |-> request[r],
                         result |-> Ok, hist |-> h])
    /\ UNCHANGED <<chan, request, expired, permits>>

\* try_connect returned Ok(session): self.session = Some(session), connect()
\* and ensure_connected() return Ok, execute_command goes on to its timeout()
attempt_succeeded(r, h) ==
    /\ sessions' = sessions + 1
    /\ session' = Some(sessions + 1)
    /\ is_closed' = FALSE
    /\ pc' = [pc EXCEPT ![r] = "channel_open"]
    /\ conn' = [conn EXCEPT ![r] = NoConn]
    /\ hist' = [hist EXCEPT ![r] = opens_channel(after_connect(h, sessions + 1))]
    /\ returned' = Some([fn |-> "connect", request |-> r, req |-> request[r],
                         result |-> Ok, hist |-> h])
    /\ UNCHANGED <<chan, request, expired, permits>>

\* try_connect calls try_key_auth ("publickey") or try_password_auth ("password")
uses(h, method) == [h EXCEPT !.methods = Append(@, method)]

\* the method try_connect called last did not authenticate: how it came back
fails(h, outcome) == [h EXCEPT !.failed = Append(@, outcome)]

\* try_connect goes on to its next await
next_await(r, at, h) ==
    /\ pc' = [pc EXCEPT ![r] = at]
    /\ hist' = [hist EXCEPT ![r] = h]
    /\ returned' = None
    /\ UNCHANGED <<session, is_closed, sessions, conn, chan, request, expired,
                   permits>>

first_method_password_preferred(config) ==
    IF config.password THEN "password"
    ELSE IF config.key_path THEN "publickey"
    ELSE "none"

\* if let Some(key_path) = .. { key } else if let Some(password) = .. { password }
\* else { no method }
first_method(config) ==
    IF config.key_path THEN "publickey"
    ELSE IF config.password THEN "password"
    ELSE "none"

\* client::connect(config, (host, port), handler).await, then the choice of the
\* first authentication method
TransportOpen(r) ==
    /\ pc[r] = "transport"
    /\ UNCHANGED <<ssh_client, config_file, waiters, calls>>
    /\ LET h == [hist[r] EXCEPT !.tries = @ + 1, !.methods = <<>>, !.failed = <<>>] IN
       \/ \E cause \in TransportFailures :
              attempt_failed(r, SshConnection(cause), h)
       \/ LET h1 == [h EXCEPT !.opens = @ + 1]
              first == first_method(Unwrap(ssh_client))
          IN  IF first = "publickey"
              THEN next_await(r, "key_auth", uses(h1, "publickey"))
              ELSE IF first = "password"
              THEN next_await(r, "password_auth", uses(h1, "password"))
              ELSE attempt_failed(r,
                       Authentication("No authentication method available"), h1)

KeyAuth_fatal(r) ==
    /\ pc[r] = "key_auth"
    /\ UNCHANGED <<ssh_client, config_file, waiters, calls>>
    /\ \E outcome \in KeyAuthOutcomes :
          IF outcome = "accepted"
          THEN attempt_succeeded(r, hist[r])
          ELSE attempt_failed(r,
                   Authentication("Key authentication error: " \o outcome),
                   fails(hist[r], outcome))

\* try_key_auth(&mut session, &key_path).await and the match on its result
KeyAuth(r) ==
    /\ pc[r] = "key_auth"
    /\ UNCHANGED <<ssh_client, config_file, waiters, calls>>
    /\ \E outcome \in KeyAuthOutcomes :
          IF outcome = "accepted"
          THEN attempt_succeeded(r, hist[r])
          ELSE IF Unwrap(ssh_client).password
          THEN next_await(r, "password_auth", uses(fails(hist[r], outcome), "password"))
          ELSE IF outcome = "rejected"
          THEN attempt_failed(r,
                   Authentication("Key authentication failed and no password provided."),
                   fails(hist[r], outcome))
          ELSE attempt_failed(r,
                   Authentication("Key authentication error: " \o outcome),
                   fails(hist[r], outcome))

\* try_password_auth(&mut session, password).await?, then `if !auth_success`
PasswordAuth(r) ==
    /\ pc[r] = "password_auth"
    /\ UNCHANGED <<ssh_client, config_file, waiters, calls>>
    /\ \E outcome \in PasswordAuthOutcomes :
          IF outcome = "accepted"
          THEN attempt_succeeded(r, hist[r])
          ELSE IF outcome = "rejected"
          THEN attempt_failed(r, Authentication("SSH Authentication Failed"),
                              fails(hist[r], outcome))
          ELSE attempt_failed(r, Authentication("Password auth failed"),
                              fails(hist[r], outcome))

\* tokio::time::sleep(RETRY_DELAY).await is over: the next attempt starts
RetrySleep(r) ==
    /\ pc[r] = "sleep"
    /\ conn' = [conn EXCEPT ![r].attempt = @ + 1]
    /\ pc' = [pc EXCEPT ![r] = "transport"]
    /\ returned' = None
    /\ UNCHANGED <<ssh_client, config_file, session, is_closed, permits, waiters, request, chan,
                   expired, hist, calls, sessions>>

(***************************************************************************)
(* SshClient::ensure_connected and execute_command.                        *)
(***************************************************************************)
\* ensure_connected() returns Ok without connecting; execute_command goes on to
\* timeout(exec_timeout, exec_command_inner(session, command))
session_reused(r, h) ==
    /\ pc' = [pc EXCEPT ![r] = "channel_open"]
    /\ hist' = [hist EXCEPT ![r] = opens_channel(h)]
    /\ returned' = None
    /\ UNCHANGED <<session, is_closed, sessions, conn, chan, expired>>

ensure_connected_unchecked(r, h) ==
    IF session # None
    THEN session_reused(r, h)
    ELSE /\ UNCHANGED <<session, is_closed, sessions>>
         /\ connect(r, h)

ensure_connected_keeps_stale(r, h) ==
    IF session # None /\ ~is_closed
    THEN session_reused(r, h)
    ELSE /\ UNCHANGED <<session, is_closed, sessions>>
         /\ connect(r, h)

ensure_connected_always(r, h) ==
    /\ session' = None
    /\ is_closed' = FALSE
    /\ UNCHANGED sessions
    /\ connect(r, h)

ensure_connected(r, h) ==
    IF session # None
    THEN IF is_closed
         THEN /\ session' = None
              /\ is_closed' = FALSE
              /\ UNCHANGED sessions
              /\ connect(r, h)
         ELSE session_reused(r, h)
    ELSE /\ UNCHANGED <<session, is_closed, sessions>>
         /\ connect(r, h)

\* client.execute_command(&request.command, request.timeout), up to its first
\* await that suspends
execute_command(r, req) ==
    /\ request' = [request EXCEPT ![r] = req]
    /\ ensure_connected(r, [hist[r] EXCEPT
           !.seen = Some([session |-> session, is_closed |-> is_closed])])
    /\ permits' = permits - 1

\* a handler returns before execute_command: the guard is taken and dropped
rejected(r, req, kind, text) ==
    /\ Returns(r, req, ToolError(kind, text), hist[r])
    /\ UNCHANGED <<session, is_closed, sessions, permits>>

timeout_invalid_clamped(timeout) == FALSE

\* request.timeout == 0 || request.timeout > 300
timeout_invalid(timeout) == timeout = 0 \/ timeout > MAX_TIMEOUT

(***************************************************************************)
(* The tool handlers of AndroidSshService.                                 *)
(***************************************************************************)
\* Parameters(request): the fields of the ExecuteRequest a handler is called
\* with; they are first read after the lock is taken and are drawn there
ExecuteRequests(tl) ==
    {[tool |-> tl, command |-> command,
      timeout |-> IF t = None THEN default_timeout ELSE Unwrap(t),
      sent |-> t] :
         command \in Commands, t \in TimeoutInputs}

\* a caller sends tool call r; its handler starts and waits for the lock
Call(r) ==
    /\ pc[r] = "idle"
    /\ r = calls + 1
    /\ calls' = calls + 1
    /\ \E tl \in Tools :
          request' = [request EXCEPT ![r] = [NoRequest EXCEPT !.tool = tl]]
    /\ pc' = [pc EXCEPT ![r] = "lock"]
    /\ waiters' = Append(waiters, r)
    /\ returned' = None
    /\ UNCHANGED <<ssh_client, config_file, session, is_closed, permits, conn, chan, expired,
                   hist, sessions>>

\* the body of execute_read, once it has the lock, on the request req
execute_read_body(r, req) ==
    IF ssh_client = None
    THEN rejected(r, req, "FirstRun", <<"Configuration Setup Required">>)
    ELSE IF timeout_invalid(req.timeout)
    THEN rejected(r, req, "Validation",
             <<"Timeout must be between 1 and 300 seconds">>)
    ELSE IF ~is_read_only(req.command)
    THEN rejected(r, req, "NotWhitelisted",
             <<"Command '", FirstToken(req.command),
               "' is not whitelisted as read-only. Use execute tool instead.">>)
    ELSE execute_command(r, req)

\* execute_read from lock().await returning to the first await that suspends
execute_read(r) ==
    /\ pc[r] = "lock"
    /\ request[r].tool = "execute_read"
    /\ LockAcquire(r)
    /\ waiters' = Tail(waiters)
    /\ UNCHANGED <<ssh_client, config_file, calls>>
    /\ \E req \in ExecuteRequests("execute_read") : execute_read_body(r, req)

execute_body_unvalidated(r, req) ==
    IF ssh_client = None
    THEN rejected(r, req, "FirstRun", <<"Configuration Setup Required">>)
    ELSE IF timeout_invalid(req.timeout)
    THEN execute_command(r, [req EXCEPT !.timeout = default_timeout])
    ELSE execute_command(r, req)

\* the body of execute, once it has the lock, on the request req
execute_body(r, req) ==
    IF ssh_client = None
    THEN rejected(r, req, "FirstRun", <<"Configuration Setup Required">>)
    ELSE IF timeout_invalid(req.timeout)
    THEN rejected(r, req, "Validation",
             <<"Timeout must be between 1 and 300 seconds">>)
    ELSE execute_command(r, req)

\* execute from lock().await returning to the first await that suspends
execute(r) ==
    /\ pc[r] = "lock"
    /\ request[r].tool = "execute"
    /\ LockAcquire(r)
    /\ waiters' = Tail(waiters)
    /\ UNCHANGED <<ssh_client, config_file, calls>>
    /\ \E req \in ExecuteRequests("execute") : execute_body(r, req)

\* field of the request, or else of the existing config when there is one
or_existing(given, existing, field) ==
    IF given # None THEN given
    ELSE IF existing = None THEN None
    ELSE IF field \in {"key_path", "password"} THEN Unwrap(existing)[field]
    ELSE Some(Unwrap(existing)[field])

\* the `missing` list of setup
missing_fields(host, user, key_path, password) ==
    (IF host = None THEN <<"host">> ELSE <<>>)
    \o (IF user = None THEN <<"user">> ELSE <<>>)
    \o (IF key_path = None /\ password = None
        THEN <<"key_path or password">> ELSE <<>>)

config_saved_reloads(config) ==
    /\ config_file' = config
    /\ ssh_client' = Some([key_path |-> config.key_path # None,
                           password |-> config.password # None])
    /\ session' = None
    /\ is_closed' = FALSE
    /\ UNCHANGED sessions

\* Config::save(&config) returned Ok: the file holds config, and the service
\* is as it was
config_saved(config) ==
    /\ config_file' = config
    /\ UNCHANGED <<ssh_client, session, is_closed, sessions>>

\* a caller sends tool call r to setup.  The handler has no await and takes
\* no lock: it runs from its call to its return in one step.  It reads the
\* config on disk, merges the request over it, and either reports what is
\* missing or hands the merged config to Config::save.
setup(r) ==
    /\ pc[r] = "idle"
    /\ r = calls + 1
    /\ calls' = calls + 1
    /\ pc' = [pc EXCEPT ![r] = "done"]
    /\ \E req \in SetupRequests, existing_config \in ExistingConfigs,
          saved \in SaveOutcomes :
          LET host == or_existing(req.host, existing_config, "host")
              port == or_existing(req.port, existing_config, "port")
              user == or_existing(req.user, existing_config, "user")
              key_path == or_existing(req.key_path, existing_config, "key_path")
              password == or_existing(req.password, existing_config, "password")
              missing == missing_fields(host, user, key_path, password)
              config == [host |-> host,
                         port |-> IF port = None THEN Some(default_port) ELSE port,
                         user |-> user, key_path |-> key_path,
                         password |-> password]
              result ==
                  IF missing # <<>>
                  THEN [is_error |-> TRUE, kind |-> "SetupIncomplete",
                        detail |-> missing, config |-> None]
                  ELSE IF saved = "saved"
                  THEN [is_error |-> FALSE, kind |-> "SetupSaved",
                        detail |-> <<IF key_path # None THEN "SSH key"
                                     ELSE "Password">>,
                        config |-> Some(config)]
                  ELSE [is_error |-> TRUE, kind |-> "SetupSaveFailed",
                        detail |-> <<"Failed to save config">>,
                        config |-> None]
          IN  /\ returned' = Some([fn |-> "setup", request |-> r,
                                   req |-> [NoRequest EXCEPT !.tool = "setup"],
                                   result |-> result, hist |-> NoHist])
              /\ IF result.kind = "SetupSaved"
                 THEN config_saved([host |-> Unwrap(config.host),
                                    port |-> Unwrap(config.port),
                                    user |-> Unwrap(config.user),
                                    key_path |-> key_path,
                                    password |-> password])
                 ELSE UNCHANGED <<ssh_client, config_file, session, is_closed,
                                  sessions>>
    /\ UNCHANGED <<permits, waiters, request, conn, chan, expired, hist>>

(***************************************************************************)
(* exec_command_inner under timeout(exec_timeout, ..).                     *)
(***************************************************************************)
exec_failed_guard_kept(r, e) ==
    /\ ReturnsErr(r, e, hist[r])
    /\ UNCHANGED <<session, is_closed, sessions, permits>>

\* execute_command returns from inside its timeout(): Err(e)
exec_failed(r, e) ==
    /\ ReturnsErr(r, e, hist[r])
    /\ permits' = permits + 1
    /\ UNCHANGED <<session, is_closed, sessions>>

\* exec_command_inner goes on to its next await
exec_next(r, at, h) ==
    /\ pc' = [pc EXCEPT ![r] = at]
    /\ hist' = [hist EXCEPT ![r] = h]
    /\ returned' = None
    /\ UNCHANGED <<session, is_closed, sessions, permits, conn, chan,
                   request, expired>>

ChannelOpen_retries(r) ==
    /\ pc[r] = "channel_open"
    /\ ~expired[r]
    /\ UNCHANGED <<ssh_client, config_file, waiters, calls>>
    /\ \/ ~is_closed /\ exec_next(r, "exec", sends_exec(hist[r]))
       \/ IF hist[r].channels < 2
          THEN exec_next(r, "channel_open", opens_channel(hist[r]))
          ELSE exec_failed(r, CommandExecution("Failed to open channel"))

\* session.channel_open_session().await is answered; on Ok the exec is sent
ChannelOpen(r) ==
    /\ pc[r] = "channel_open"
    /\ ~expired[r]
    /\ UNCHANGED <<ssh_client, config_file, waiters, calls>>
    /\ \/ ~is_closed /\ exec_next(r, "exec", sends_exec(hist[r]))
       \/ exec_failed(r, CommandExecution("Failed to open channel"))

\* channel.exec(true, command).await
ChannelExec(r) ==
    /\ pc[r] = "exec"
    /\ ~expired[r]
    /\ UNCHANGED <<ssh_client, config_file, waiters, calls>>
    /\ \/ ~is_closed /\ exec_next(r, "drain", hist[r])
       \/ exec_failed(r, CommandExecution("Failed to exec command"))

on_msg_any_ext(c, msg) ==
    IF msg.msg = "Data"
    THEN [c EXCEPT !.stdout = @ \o msg.data]
    ELSE IF msg.msg = "ExtendedData"
    THEN [c EXCEPT !.stderr = @ \o msg.data]
    ELSE IF msg.msg = "ExitStatus"
    THEN [c EXCEPT !.exit_code = Some(AsI32(msg.exit_status))]
    ELSE IF msg.msg = "Eof"
    THEN [c EXCEPT !.got_eof = TRUE]
    ELSE c

\* the body of `while let Some(msg) = channel.wait().await` for one message
on_msg(c, msg) ==
    IF msg.msg = "Data"
    THEN [c EXCEPT !.stdout = @ \o msg.data]
    ELSE IF msg.msg = "ExtendedData"
    THEN IF msg.ext = EXT_STDERR THEN [c EXCEPT !.stderr = @ \o msg.data] ELSE c
    ELSE IF msg.msg = "ExitStatus"
    THEN [c EXCEPT !.exit_code = Some(AsI32(msg.exit_status))]
    ELSE IF msg.msg = "Eof"
    THEN [c EXCEPT !.got_eof = TRUE]
    ELSE c

\* whether the loop breaks after msg (c is the state after on_msg)
breaks(c, msg) ==
    \/ msg.msg = "ExitStatus" /\ c.got_eof
    \/ msg.msg = "Eof" /\ c.exit_code # None

drain_done_status_checked(r, c, h) ==
    /\ IF c.exit_code # None /\ Unwrap(c.exit_code) # 0
       THEN ReturnsErr(r, CommandExecution("Command failed"), h)
       ELSE Returns(r, request[r], ToolSuccess(CommandResult(c)),
                    [h EXCEPT !.locals = Some(c)])
    /\ permits' = permits + 1
    /\ UNCHANGED <<session, is_closed, sessions>>

\* the drain is over: Ok(CommandResult) goes back through timeout() and the
\* handler renders it
drain_done(r, c, h) ==
    /\ Returns(r, request[r], ToolSuccess(CommandResult(c)),
               [h EXCEPT !.locals = Some(c)])
    /\ permits' = permits + 1
    /\ UNCHANGED <<session, is_closed, sessions>>

\* channel.wait().await delivers a message, or None when the channel is gone
ChannelWait(r) ==
    /\ pc[r] = "drain"
    /\ ~expired[r]
    /\ UNCHANGED <<ssh_client, config_file, waiters, calls>>
    /\ \/ /\ hist[r].drained < MaxEvents
          /\ \E msg \in ChannelMsgs :
                LET c == on_msg(chan[r], msg)
                    h == [hist[r] EXCEPT
                             !.drained = @ + 1,
                             !.status = IF msg.msg = "ExitStatus"
                                        THEN Some(msg.exit_status) ELSE @]
                IN  IF breaks(c, msg)
                    THEN drain_done(r, c, [h EXCEPT !.last = Some(msg)])
                    ELSE /\ chan' = [chan EXCEPT ![r] = c]
                         /\ hist' = [hist EXCEPT ![r] = h]
                         /\ returned' = None
                         /\ UNCHANGED <<session, is_closed, sessions, permits, pc,
                                        conn, request, expired>>
       \/ drain_done(r, chan[r], [hist[r] EXCEPT !.last = Some(ChannelEnd)])

Elapse_whole_call(r) ==
    /\ pc[r] \in ConnectPcs \cup ExecPcs
    /\ ~expired[r]
    /\ expired' = [expired EXCEPT ![r] = TRUE]
    /\ returned' = None
    /\ UNCHANGED <<ssh_client, config_file, session, is_closed, permits, waiters, pc, request,
                   conn, chan, hist, calls, sessions>>

\* exec_timeout passes while the request is inside timeout()
Elapse(r) ==
    /\ pc[r] \in ExecPcs
    /\ ~expired[r]
    /\ expired' = [expired EXCEPT ![r] = TRUE]
    /\ returned' = None
    /\ UNCHANGED <<ssh_client, config_file, session, is_closed, permits, waiters, pc, request,
                   conn, chan, hist, calls, sessions>>

on_elapsed_partial(r) ==
    drain_done(r, chan[r], hist[r])

on_elapsed_teardown(r) ==
    /\ ReturnsErr(r, Timeout(request[r].timeout), hist[r])
    /\ permits' = permits + 1
    /\ session' = None
    /\ is_closed' = FALSE
    /\ UNCHANGED sessions

\* .map_err(|_| SshMcpError::Timeout(..)): the inner future is dropped
on_elapsed(r) ==
    exec_failed(r, Timeout(request[r].timeout))

Deadline_unarmed(r) ==
    /\ pc[r] \in ExecPcs
    /\ expired[r]
    /\ UNCHANGED vars

\* timeout() resolves with Elapsed
Deadline(r) ==
    /\ pc[r] \in ExecPcs
    /\ expired[r]
    /\ UNCHANGED <<ssh_client, config_file, waiters, calls>>
    /\ on_elapsed(r)

\* the remote side, the network or russh's inactivity timeout closes the
\* connection of the held handle
RemoteDrop ==
    /\ session # None
    /\ ~is_closed
    /\ is_closed' = TRUE
    /\ returned' = None
    /\ UNCHANGED <<ssh_client, config_file, session, permits, waiters, pc, request, conn, chan,
                   expired, hist, calls, sessions>>

Next ==
    \/ \E r \in Requests :
          \/ Call(r)
          \/ execute_read(r)
          \/ execute(r)
          \/ TransportOpen(r)
          \/ KeyAuth(r)
          \/ PasswordAuth(r)
          \/ RetrySleep(r)
          \/ ChannelOpen(r)
          \/ ChannelExec(r)
          \/ ChannelWait(r)
          \/ Elapse(r)
          \/ Deadline(r)
    \/ RemoteDrop

\* the service as main() starts it
Spec == Init /\ [][Next]_vars

\* What the runtime and the environment do sooner or later.  A handler that
\* can take the lock is polled and takes it; the timers of sleep(RETRY_DELAY)
\* and of timeout(exec_timeout, ..) fire; client::connect and the
\* authentication calls, which have no timer, are taken to answer.  Nothing
\* is taken of the channel calls, which the remote side may leave pending for
\* ever, nor of callers, who need not call.
Fairness ==
    \A r \in Requests :
        /\ WF_vars(execute_read(r))
        /\ WF_vars(execute(r))
        /\ WF_vars(TransportOpen(r))
        /\ WF_vars(KeyAuth(r))
        /\ WF_vars(PasswordAuth(r))
        /\ WF_vars(RetrySleep(r))
        /\ WF_vars(Elapse(r))
        /\ WF_vars(Deadline(r))

\* the service on a runtime that polls ready tasks and fires timers, with
\* connect and authentication round-trips that return
SpecFair == Init /\ [][Next]_vars /\ Fairness

(***************************************************************************)
(* SshClient::disconnect.  Nothing in the service calls it; it is driven   *)
(* here by a caller that takes the client as the tool handlers do, through *)
(* the lock, and calls disconnect() on it.                                 *)
(***************************************************************************)
\* a caller is about to call disconnect(): it waits for the lock
CallDisconnect(r) ==
    /\ pc[r] = "idle"
    /\ r = calls + 1
    /\ calls' = calls + 1
    /\ request' = [request EXCEPT ![r] = [NoRequest EXCEPT !.tool = "disconnect"]]
    /\ pc' = [pc EXCEPT ![r] = "lock"]
    /\ waiters' = Append(waiters, r)
    /\ returned' = None
    /\ UNCHANGED <<ssh_client, config_file, session, is_closed, permits, conn, chan, expired,
                   hist, sessions>>

\* disconnect() returns; notified is the number of close notifications it
\* sent and failed whether the one it sent came back with an error
disconnect_returns(r, notified, failed) ==
    /\ pc' = [pc EXCEPT ![r] = "done"]
    /\ returned' = Some([fn |-> "disconnect", request |-> r, req |-> request[r],
                         result |-> [is_error |-> FALSE, kind |-> "Ok",
                                     notified |-> notified, failed |-> failed],
                         hist |-> hist[r]])
    /\ request' = [request EXCEPT ![r] = NoRequest]
    /\ hist' = [hist EXCEPT ![r] = NoHist]
    /\ UNCHANGED <<conn, chan, expired>>

disconnect_keeps_handle(r) ==
    /\ pc[r] = "lock"
    /\ request[r].tool = "disconnect"
    /\ LockAcquire(r)
    /\ waiters' = Tail(waiters)
    /\ UNCHANGED <<ssh_client, config_file, calls, sessions>>
    /\ IF session # None
       THEN /\ UNCHANGED <<session, is_closed>>
            /\ permits' = permits - 1
            /\ pc' = [pc EXCEPT ![r] = "disconnect"]
            /\ hist' = [hist EXCEPT ![r] = [NoHist EXCEPT !.seen =
                           Some([session |-> session, is_closed |-> is_closed])]]
            /\ returned' = None
            /\ UNCHANGED <<request, conn, chan, expired>>
       ELSE /\ disconnect_returns(r, 0, FALSE)
            /\ UNCHANGED <<session, is_closed, permits>>

\* disconnect() up to its await: if let Some(session) = self.session.take()
disconnect(r) ==
    /\ pc[r] = "lock"
    /\ request[r].tool = "disconnect"
    /\ LockAcquire(r)
    /\ waiters' = Tail(waiters)
    /\ UNCHANGED <<ssh_client, config_file, calls, sessions>>
    /\ IF session # None
       THEN /\ session' = None
            /\ is_closed' = FALSE
            /\ permits' = permits - 1
            /\ pc' = [pc EXCEPT ![r] = "disconnect"]
            /\ hist' = [hist EXCEPT ![r] = [NoHist EXCEPT !.seen =
                           Some([session |-> session, is_closed |-> is_closed])]]
            /\ returned' = None
            /\ UNCHANGED <<request, conn, chan, expired>>
       ELSE /\ disconnect_returns(r, 0, FALSE)
            /\ UNCHANGED <<session, is_closed, permits>>

\* let _ = session.disconnect(Disconnect::ByApplication, "", "en").await:
\* Ok or Err, dropped either way; the handle taken out of the slot is dropped
DisconnectNotified(r) ==
    /\ pc[r] = "disconnect"
    /\ \E failed \in BOOLEAN : disconnect_returns(r, 1, failed)
    /\ permits' = permits + 1
    /\ UNCHANGED <<ssh_client, config_file, session, is_closed, waiters, calls, sessions>>

\* an SshClient there is to call disconnect() on: as new() made it, or
\* holding the session an earlier execute_command established
InitClient ==
    /\ ssh_client = Some([key_path |-> TRUE, password |-> TRUE])
    /\ \/ session = None /\ sessions = 0
       \/ session = Some(1) /\ sessions = 1
    /\ is_closed = FALSE
    /\ permits = 1
    /\ waiters = <<>>
    /\ pc = [r \in Requests |-> "idle"]
    /\ request = [r \in Requests |-> NoRequest]
    /\ conn = [r \in Requests |-> NoConn]
    /\ chan = [r \in Requests |-> NoChan]
    /\ expired = [r \in Requests |-> FALSE]
    /\ hist = [r \in Requests |-> NoHist]
    /\ calls = 0
    /\ returned = None
    /\ config_file = config_on_disk(ssh_client)

NextClient ==
    \/ Next
    \/ \E r \in Requests :
          \/ CallDisconnect(r)
          \/ disconnect(r)
          \/ DisconnectNotified(r)

\* the client with every one of its public operations called
SpecClient == InitClient /\ [][NextClient]_vars

\* the service around an SshClient made from any descriptor
SpecAnyDescriptor == InitAnyDescriptor /\ [][Next]_vars

\* main() with no config on disk yet, or with a config naming a key and a password
InitTools ==
    InitWith({None, Some([key_path |-> TRUE, password |-> TRUE])})

\* the three tools of the tool router: execute_read, execute and setup
NextTools ==
    \/ Next
    \/ \E r \in Requests : setup(r)

\* the service with all of its tools
SpecTools == InitTools /\ [][NextTools]_vars

(***************************************************************************)
(* The pure functions on their own: is_read_only and the rendering of a    *)
(* CommandResult, applied to inputs drawn in the initial state.            *)
(***************************************************************************)
\* characters of the command strings: two of them whitespace
GateChars == {"l", "s", "d", " ", "\t"}

RECURSIVE StringsUpTo(_)
StringsUpTo(n) ==
    IF n = 0 THEN {<<>>}
    ELSE LET shorter == StringsUpTo(n - 1) IN
         shorter \cup {Append(s, ch) : s \in shorter, ch \in GateChars}

\* command strings is_read_only is applied to
GateInputs == StringsUpTo(MaxLen) \cup Commands

\* what a drain can leave in the locals of exec_command_inner: stdout "",
\* "h", "h\n", "hello\n", "\u{e9}" and an invalid byte
RenderInputs ==
    [stdout : {<<>>, <<104>>, <<104, 10>>, <<104, 101, 108, 108, 111, 10>>,
               <<195, 169>>, <<255>>},
     stderr : {<<>>, <<101>>, <<101, 10>>},
     exit_code : {None} \cup {Some(AsI32(s)) : s \in ExitStatuses \cup {U32(0, 1)}},
     got_eof : {TRUE}]

\* sequences of channel messages of length up to n
RECURSIVE MsgsUpTo(_)
MsgsUpTo(n) ==
    IF n = 0 THEN {<<>>}
    ELSE LET shorter == MsgsUpTo(n - 1) IN
         shorter \cup {Append(s, msg) : s \in shorter, msg \in ChannelMsgs}

\* what a channel can deliver before channel.wait() returns None
EventInputs == MsgsUpTo(MaxEvents + 1)

\* the `while let` loop of exec_command_inner over the messages the channel
\* delivers: the locals when the loop is left, and the messages it consumed
RECURSIVE drain(_, _)
drain(c, events) ==
    IF events = <<>> THEN [locals |-> c, observed |-> <<>>]
    ELSE LET msg == Head(events)
             c1 == on_msg(c, msg)
         IN  IF breaks(c1, msg) THEN [locals |-> c1, observed |-> <<msg>>]
             ELSE LET rest == drain(c1, Tail(events)) IN
                  [locals |-> rest.locals, observed |-> <<msg>> \o rest.observed]

InitFunctions ==
    /\ ssh_client = None
    /\ session = None
    /\ is_closed = FALSE
    /\ permits = 1
    /\ waiters = <<>>
    /\ pc = [r \in Requests |-> "idle"]
    /\ conn = [r \in Requests |-> NoConn]
    /\ expired = [r \in Requests |-> FALSE]
    /\ hist = [r \in Requests |-> NoHist]
    /\ calls = 0
    /\ sessions = 0
    /\ returned = None
    /\ config_file = config_on_disk(ssh_client)
    /\ \/ /\ \E command \in GateInputs :
                request = [r \in Requests |->
                              IF r = 1 THEN [NoRequest EXCEPT !.command = command]
                              ELSE NoRequest]
          /\ chan = [r \in Requests |-> NoChan]
       \/ /\ \E events \in EventInputs :
                request = [r \in Requests |->
                              IF r = 1
                              THEN [tool |-> "exec_command_inner", command |-> cmd_ls,
                                    timeout |-> default_timeout, sent |-> None,
                                    events |-> events]
                              ELSE NoRequest]
          /\ chan = [r \in Requests |-> NoChan]
       \/ /\ request = [r \in Requests |-> NoRequest]
          /\ \E c \in RenderInputs :
                chan = [r \in Requests |-> IF r = 1 THEN c ELSE NoChan]

\* is_read_only(&request.command)
CallIsReadOnly ==
    /\ chan[1] = NoChan
    /\ request[1].tool = "none"
    /\ returned' = Some([fn |-> "is_read_only", request |-> 1, req |-> request[1],
                         result |-> [is_error |-> FALSE, kind |-> "bool",
                                     value |-> is_read_only(request[1].command)],
                         hist |-> NoHist])
    /\ UNCHANGED <<ssh_client, config_file, session, is_closed, permits, waiters, pc, request,
                   conn, chan, expired, hist, calls, sessions>>

\* the end of exec_command_inner and the Ok(result) arm of a handler
CallRender ==
    /\ chan[1] # NoChan
    /\ returned' = Some([fn |-> "render", request |-> 1, req |-> request[1],
                         result |-> ToolSuccess(CommandResult(chan[1])),
                         hist |-> [NoHist EXCEPT !.locals = Some(chan[1])]])
    /\ UNCHANGED <<ssh_client, config_file, session, is_closed, permits, waiters, pc, request,
                   conn, chan, expired, hist, calls, sessions>>

\* ServerHandler::get_info: what the instructions say of the whitelist
CallGetInfo ==
    /\ returned' = Some([fn |-> "get_info", request |-> 1, req |-> request[1],
                         result |-> [is_error |-> FALSE, kind |-> "ServerInfo",
                                     whitelisted |-> INSTRUCTIONS_WHITELIST,
                                     total |-> WHITELIST_TOTAL],
                         hist |-> NoHist])
    /\ UNCHANGED <<ssh_client, config_file, session, is_closed, permits, waiters, pc, request,
                   conn, chan, expired, hist, calls, sessions>>

\* exec_command_inner from its first channel.wait() to its return
CallDrain ==
    /\ request[1].tool = "exec_command_inner"
    /\ LET d == drain(NoChan, request[1].events) IN
       returned' = Some([fn |-> "drain", request |-> 1, req |-> request[1],
                         result |-> ToolSuccess(CommandResult(d.locals)),
                         hist |-> [NoHist EXCEPT !.locals = Some(d.locals),
                                                 !.drained = Len(d.observed)]])
    /\ UNCHANGED <<ssh_client, config_file, session, is_closed, permits, waiters, pc, request,
                   conn, chan, expired, hist, calls, sessions>>

NextFunctions == CallIsReadOnly \/ CallRender \/ CallGetInfo \/ CallDrain

SpecFunctions == InitFunctions /\ [][NextFunctions]_vars

(***************************************************************************)
(* Vocabulary of the properties.                                           *)
(***************************************************************************)
\* the latest step returned from r's handler / from r's connect() with Ok
HandlerReturned == returned # None /\ Unwrap(returned).fn = "handler"
ConnectReturned == returned # None /\ Unwrap(returned).fn = "connect"

\* the latest step returned from a handler because connect() gave up
ConnectFailed == HandlerReturned /\ Unwrap(returned).hist.tries > 0

\* what ensure_connected found in the slot
SeenOpen(h) ==
    h.seen # None /\ Unwrap(h.seen).session # None /\ ~Unwrap(h.seen).is_closed
SeenClosed(h) ==
    h.seen # None /\ Unwrap(h.seen).session # None /\ Unwrap(h.seen).is_closed
SeenAbsent(h) == h.seen # None /\ Unwrap(h.seen).session = None

ConnectionErrors == {"SshConnection", "Authentication"}

(***************************************************************************)
(* Properties.                                                             *)
(***************************************************************************)
\* C1: at most one request holds the client at a time: while one request is
\* anywhere between its reconnect-check and its return (connecting, sleeping,
\* opening a channel, draining, waiting for its deadline), every other request
\* is before its lock or done, and has no connect or drain of its own; the lock
\* has a permit exactly when nobody holds it.
C1_OneHolder ==
    /\ \A r1, r2 \in Requests : HoldsGuard(r1) /\ HoldsGuard(r2) => r1 = r2
    /\ \A r \in Requests :
          ~HoldsGuard(r) => conn[r] = NoConn /\ chan[r] = NoChan /\ hist[r] = NoHist
    /\ permits = IF \E r \in Requests : HoldsGuard(r) THEN 0 ELSE 1

C1_Witness ==
    \E r1, r2 \in Requests : pc[r1] = "drain" /\ chan[r1].stdout # <<>> /\ pc[r2] = "lock"

\* C2: while a request is inside connect() (an attempt in flight, or asleep
\* between attempts) no other request enters the client, starts an attempt or
\* looks at the slot, and the slot changes only when that request's own attempt
\* succeeds.
C2_OneConnectLoop ==
    [][\A r \in Requests : pc[r] \in ConnectPcs =>
          /\ \A r2 \in Requests \ {r} :
                /\ ~HoldsGuard(r2)'
                /\ hist'[r2] = hist[r2]
                /\ conn'[r2] = conn[r2]
          /\ session' # session =>
                pc'[r] = "channel_open" /\ session' = hist'[r].made
          /\ sessions' # sessions => pc'[r] = "channel_open"
      ]_vars

C2_Witness ==
    \E r1, r2 \in Requests : pc[r1] = "sleep" /\ conn[r1].attempt = 2 /\ pc[r2] = "lock"

\* the step in which r's channel_open_session() is answered
ChannelOpenStep(r) ==
    pc[r] = "channel_open" /\ ~expired[r] /\ pc'[r] \in {"exec", "done"}

\* C3 as stated: whenever execute_command opens a channel, the session it
\* opens it on is not closed at that moment.
C3_HealthyAtUse ==
    [][\A r \in Requests : ChannelOpenStep(r) => ~is_closed]_vars

\* C3 as amended: the session a request is attempted on was healthy when
\* ensure_connected returned (found open, or just established), and it is the
\* session in the slot until the request returns; the remote may close it in
\* between, and then the channel open is attempted on a closed session and
\* fails with CommandExecution.
C3_HealthyWhenChecked ==
    [][\A r \in Requests :
          /\ pc[r] \notin ExecPcs /\ pc'[r] \in ExecPcs =>
                /\ session' # None
                /\ ~is_closed'
                /\ session' = IF hist'[r].made # None THEN hist'[r].made
                              ELSE Unwrap(hist'[r].seen).session
          /\ pc[r] \in ExecPcs => session' = session
          /\ ChannelOpenStep(r) /\ is_closed =>
                /\ pc'[r] = "done"
                /\ Unwrap(returned').result.kind = "CommandExecution"
      ]_vars

C3_Witness ==
    \E r \in Requests : pc[r] = "channel_open" /\ session # None /\ is_closed

\* C4: one connect() makes at most MAX_RETRIES attempts; it stops at the first
\* attempt that succeeds and the slot then holds that attempt's session; it
\* sleeps RETRY_DELAY once after each failed attempt but the last, so
\* (attempts - 1) * RETRY_DELAY on success and (MAX_RETRIES - 1) * RETRY_DELAY
\* when every attempt failed.
C4_BoundedRetry ==
    /\ \A r \in Requests : pc[r] \in ConnectPcs =>
          /\ conn[r].attempt \in 1..MAX_RETRIES
          /\ hist[r].tries = IF pc[r] = "transport" THEN conn[r].attempt - 1
                             ELSE conn[r].attempt
          /\ hist[r].slept = IF pc[r] = "sleep" THEN RETRY_DELAY * conn[r].attempt
                             ELSE RETRY_DELAY * (conn[r].attempt - 1)
          /\ pc[r] = "sleep" => conn[r].attempt < MAX_RETRIES
    /\ ConnectReturned =>
          LET e == Unwrap(returned) IN
          /\ e.hist.tries \in 1..MAX_RETRIES
          /\ e.hist.slept = RETRY_DELAY * (e.hist.tries - 1)
          /\ session = Some(sessions)
          /\ hist[e.request].made = session
          /\ pc[e.request] = "channel_open"
    /\ ConnectFailed =>
          LET e == Unwrap(returned) IN
          /\ e.hist.tries = MAX_RETRIES
          /\ e.hist.slept = RETRY_DELAY * (MAX_RETRIES - 1)
          /\ session = None

C4_Witness ==
    /\ ConnectFailed
    /\ Unwrap(returned).hist.tries = 3
    /\ Unwrap(returned).hist.slept = 4

\* C5 as stated: when all attempts fail, connect() fails with a ConnectionFailed
\* error carrying the cause of the last attempt.
C5_ConnectionFailedLastCause ==
    ConnectFailed =>
        LET e == Unwrap(returned) IN
        /\ e.result.kind = "SshConnection"
        /\ e.result.detail = Unwrap(e.hist.attempt_error).detail

\* C5 as amended: when all attempts fail, connect() fails with the error of the
\* last attempt as it is, kind included: SshConnection when that attempt's
\* transport did not open, Authentication when its authentication failed;
\* never an earlier attempt's error, and never the generic cause.
C5_LastAttemptError ==
    ConnectFailed =>
        LET e == Unwrap(returned) IN
        /\ e.hist.attempt_error # None
        /\ e.result.is_error
        /\ e.result.kind = Unwrap(e.hist.attempt_error).kind
        /\ e.result.detail = Unwrap(e.hist.attempt_error).detail
        /\ e.result.kind \in ConnectionErrors
        /\ e.result.detail # <<"Failed to connect after retries">>

C5_Witness ==
    /\ ConnectFailed
    /\ Unwrap(returned).result.kind = "Authentication"
    /\ Unwrap(returned).hist.opens < Unwrap(returned).hist.tries

\* the descriptor has neither key path nor password
NoMethod ==
    /\ ssh_client # None
    /\ ~Unwrap(ssh_client).key_path
    /\ ~Unwrap(ssh_client).password

\* C6: with neither key path nor password, connect() fails with Authentication
\* and without a retry loop: the transport is opened at most once and there is
\* no sleep between attempts.
C6_NoMethodNoRetry ==
    NoMethod =>
        /\ \A r \in Requests : hist[r].opens <= 1 /\ hist[r].slept = 0
        /\ ConnectFailed =>
              LET e == Unwrap(returned) IN
              /\ e.result.kind = "Authentication"
              /\ e.hist.opens <= 1
              /\ e.hist.slept = 0

\* C7: when the held session reports itself open, ensure_connected does
\* nothing: no connect(), no attempt, no transport, and the slot holds the
\* same session for as long as the request holds the client and when it
\* returns; so a later command runs on the session an earlier one made.
C7_NoOpWhenOpen ==
    /\ \A r \in Requests : HoldsGuard(r) /\ SeenOpen(hist[r]) =>
          /\ pc[r] \in ExecPcs
          /\ hist[r].connects = 0
          /\ hist[r].tries = 0
          /\ hist[r].opens = 0
          /\ hist[r].made = None
          /\ session = Unwrap(hist[r].seen).session
    /\ HandlerReturned /\ SeenOpen(Unwrap(returned).hist) =>
          LET e == Unwrap(returned) IN
          /\ e.hist.connects = 0
          /\ e.hist.tries = 0
          /\ e.hist.made = None
          /\ session = Unwrap(e.hist.seen).session
          /\ e.result.kind \notin ConnectionErrors

C7_Witness ==
    \E r \in Requests :
        /\ r > 1
        /\ pc[r] = "drain"
        /\ SeenOpen(hist[r])
        /\ sessions = 1
        /\ session = Some(1)

\* C8: when the held session reports itself closed, or none is held,
\* ensure_connected calls connect() exactly once; a stale handle is out of the
\* slot while connect() runs; when connect() succeeds the request goes on to
\* open its channel on the new session, and no connection error reaches the
\* caller unless every attempt failed.
C8_OneReconnect ==
    /\ \A r \in Requests :
          HoldsGuard(r) /\ (SeenClosed(hist[r]) \/ SeenAbsent(hist[r])) =>
              /\ hist[r].connects = 1
              /\ pc[r] \in ConnectPcs => session = None /\ hist[r].made = None
              /\ pc[r] \in ExecPcs =>
                    /\ hist[r].made # None
                    /\ session = hist[r].made
                    /\ session # Unwrap(hist[r].seen).session
    /\ ConnectReturned =>
          LET e == Unwrap(returned) IN
          /\ e.hist.connects = 1
          /\ SeenClosed(e.hist) \/ SeenAbsent(e.hist)
          /\ pc[e.request] = "channel_open"
          /\ session = Some(sessions)
          /\ ~is_closed
    /\ HandlerReturned /\ Unwrap(returned).hist.seen # None
          /\ ~SeenOpen(Unwrap(returned).hist) =>
          LET e == Unwrap(returned) IN
          /\ e.hist.connects = 1
          /\ e.result.kind \in ConnectionErrors =>
                e.hist.tries = MAX_RETRIES /\ e.hist.made = None /\ session = None
          /\ e.result.kind \notin ConnectionErrors =>
                e.hist.made # None /\ session = e.hist.made

C8_Witness ==
    \E r \in Requests :
        /\ SeenClosed(hist[r])
        /\ pc[r] = "drain"
        /\ session = hist[r].made
        /\ session = Some(2)

\* the latest step returned a Timeout error from a handler
TimedOut ==
    HandlerReturned /\ Unwrap(returned).result.kind = "Timeout"

\* C9: a Timeout return leaves the slot and the handle as they were: the slot
\* holds the session the command ran on (the one held before the call when
\* that one was open); a request that takes the client next, with the handle
\* still open, goes straight to its channel on that session with no connect().
C9_TimeoutKeepsSession ==
    [][/\ TimedOut' =>
             /\ session' = session
             /\ is_closed' = is_closed
             /\ session' # None
             /\ SeenOpen(Unwrap(returned').hist) =>
                   session' = Unwrap(Unwrap(returned').hist.seen).session
       /\ \A r \in Requests :
             TimedOut /\ ~is_closed /\ pc[r] = "lock" /\ HoldsGuard(r)' =>
                 /\ pc'[r] = "channel_open"
                 /\ session' = session
                 /\ sessions' = sessions
                 /\ hist'[r].connects = 0
      ]_vars

C9_Witness ==
    /\ TimedOut
    /\ session # None
    /\ ~is_closed
    /\ \E r \in Requests : pc[r] = "lock"

\* C10: a request whose deadline passes before its drain is over returns a
\* Timeout error that carries the request's timeout and nothing of the output
\* read so far; a CommandResult is returned only by a drain that ended with
\* the deadline not passed.
C10_TimeoutNotPartial ==
    [][\A r \in Requests : pc[r] \in ExecPcs /\ pc'[r] = "done" =>
          LET e == Unwrap(returned') IN
          IF expired[r]
          THEN /\ e.result.is_error
               /\ e.result.kind = "Timeout"
               /\ e.result.detail =
                     <<"Command timed out after", request[r].timeout, "seconds">>
          ELSE /\ e.result.kind # "Timeout"
               /\ e.result.kind = "CommandResult" => pc[r] = "drain"
      ]_vars

C10_Witness ==
    /\ TimedOut
    /\ Unwrap(returned).hist.drained > 0
    /\ Unwrap(returned).req.timeout = 1

\* s is a prefix of t
IsPrefix(s, t) == Len(s) <= Len(t) /\ SubSeq(t, 1, Len(s)) = s

\* the i32 i is the number the u32 u is
SameNumber(i, u) == i >= 0 /\ i \div 65536 = u[1] /\ i % 65536 = u[2]

\* r's drain consumes a message or sees the channel end, inside its deadline
DrainStep(r) ==
    /\ pc[r] = "drain"
    /\ ~expired[r]
    /\ pc'[r] = "done" \/ hist'[r].drained = hist[r].drained + 1

\* C11: the drain joins exit-status and end-of-stream in either order: it
\* stops exactly when both have been observed or the channel has no more
\* events; what was accumulated is kept while it waits for the second of the
\* two and is returned; and the exit code reported is the number the latest
\* exit-status delivered, whatever that number is.
C11_DrainJoin ==
    [][\A r \in Requests : DrainStep(r) =>
          IF pc'[r] = "done"
          THEN LET e == Unwrap(returned') IN
               /\ e.result.kind = "CommandResult"
               /\ \/ Unwrap(e.hist.last) = ChannelEnd
                  \/ /\ Unwrap(e.hist.last).msg = "Eof"
                     /\ chan[r].exit_code # None
                     /\ ~chan[r].got_eof
                  \/ /\ Unwrap(e.hist.last).msg = "ExitStatus"
                     /\ chan[r].got_eof
               /\ e.result.stdout = from_utf8_lossy(chan[r].stdout)
               /\ e.result.stderr = from_utf8_lossy(chan[r].stderr)
               /\ e.hist.status # None =>
                     SameNumber(e.result.exit_code, Unwrap(e.hist.status))
          ELSE /\ ~(chan'[r].got_eof /\ chan'[r].exit_code # None)
               /\ IsPrefix(chan[r].stdout, chan'[r].stdout)
               /\ IsPrefix(chan[r].stderr, chan'[r].stderr)
               /\ chan[r].got_eof => chan'[r].got_eof
               /\ chan[r].exit_code # None => chan'[r].exit_code # None
      ]_vars

\* the latest step returned the outcome of a drain that the channel's None ended
DrainEnded ==
    /\ HandlerReturned
    /\ Unwrap(returned).hist.last = Some(ChannelEnd)

\* C12: when the channel has no more events after an end-of-stream and no
\* exit-status was ever delivered, the call returns at once with a
\* CommandResult, not an error, whose exit code is 0 and whose output is what
\* was accumulated; more generally a result returned without any exit-status
\* delivered has exit code 0.
C12_NoStatusIsZero ==
    /\ DrainEnded =>
          LET e == Unwrap(returned)
              c == Unwrap(e.hist.locals)
          IN  c.got_eof /\ c.exit_code = None =>
                  /\ e.hist.status = None
                  /\ ~e.result.is_error
                  /\ e.result.kind = "CommandResult"
                  /\ e.result.exit_code = 0
                  /\ e.result.stdout = from_utf8_lossy(c.stdout)
                  /\ e.result.stderr = from_utf8_lossy(c.stderr)
    /\ HandlerReturned /\ Unwrap(returned).result.kind = "CommandResult"
          /\ Unwrap(returned).hist.status = None =>
              Unwrap(returned).result.exit_code = 0

C12_Witness ==
    /\ DrainEnded
    /\ Unwrap(Unwrap(returned).hist.locals).got_eof
    /\ Unwrap(Unwrap(returned).hist.locals).stdout # <<>>
    /\ Unwrap(returned).hist.status = None
    /\ Unwrap(returned).result.exit_code = 0

\* the methods h says an attempt called, and how they came back, are those of
\* an attempt on config that tries the key first, the password only after the
\* key did not authenticate, and each at most once
MethodsOrdered(h, config) ==
    /\ h.methods \in {<<>>, <<"publickey">>, <<"password">>,
                      <<"publickey", "password">>}
    /\ config.key_path /\ h.methods # <<>> => h.methods[1] = "publickey"
    /\ ~config.key_path => h.methods \in {<<>>, <<"password">>}
    /\ ~config.password => h.methods \in {<<>>, <<"publickey">>}
    /\ Len(h.failed) <= Len(h.methods)
    /\ \A i \in 1..Len(h.failed) : h.failed[i] # "accepted"
    /\ h.methods = <<"publickey", "password">> =>
          Len(h.failed) >= 1 /\ h.failed[1] \in KeyAuthOutcomes

\* C13: within one attempt the key, when one is configured, is tried before
\* the password; an accepted key ends the attempt with success and no password
\* call; the password is tried only when it is configured and the key was not
\* tried or did not authenticate; no method is called twice in an attempt.
C13_AuthOrdered ==
    /\ \A r \in Requests : pc[r] \in ConnectPcs =>
          /\ MethodsOrdered(hist[r], Unwrap(ssh_client))
          /\ pc[r] = "key_auth" =>
                hist[r].methods = <<"publickey">> /\ hist[r].failed = <<>>
          /\ pc[r] = "password_auth" =>
                /\ hist[r].methods[Len(hist[r].methods)] = "password"
                /\ Len(hist[r].failed) = Len(hist[r].methods) - 1
    /\ ConnectReturned =>
          LET h == Unwrap(returned).hist IN
          /\ MethodsOrdered(h, Unwrap(ssh_client))
          /\ h.methods # <<>>
          /\ Len(h.failed) = Len(h.methods) - 1
          /\ h.failed = <<>> /\ Unwrap(ssh_client).key_path =>
                h.methods = <<"publickey">>
    /\ ConnectFailed => MethodsOrdered(Unwrap(returned).hist, Unwrap(ssh_client))

C13_Witness ==
    /\ ConnectReturned
    /\ Unwrap(ssh_client).password
    /\ Unwrap(returned).hist.methods = <<"publickey">>

\* r's attempt ends in this step with an error: connect() goes to sleep before
\* the next attempt, or gives up
AttemptFails(r) ==
    /\ pc[r] \in {"transport", "key_auth", "password_auth"}
    /\ pc'[r] \in {"sleep", "done"}

\* what r's call has done when its attempt has just failed
FailedAttempt(r) ==
    IF pc'[r] = "sleep" THEN hist'[r] ELSE Unwrap(returned').hist

\* messages of try_connect that say key authentication was tried and failed
KeyFailureTexts ==
    {"Key authentication failed and no password provided."}
    \cup {"Key authentication error: " \o o : o \in KeyAuthOutcomes \ {"accepted", "rejected"}}

\* C14: a key that cannot be read or parsed, that the remote rejects, or whose
\* authentication errs, does not end the attempt when a password is configured:
\* the password is tried next in the same attempt and decides it (success when
\* accepted, an Authentication error otherwise); with no password configured
\* the attempt fails with an Authentication error whose text names key
\* authentication as what failed.
C14_KeyFailureFallsThrough ==
    [][\A r \in Requests :
          /\ pc[r] = "key_auth" /\ pc'[r] # "key_auth" =>
                IF Unwrap(ssh_client).password
                THEN \/ pc'[r] = "channel_open" /\ Unwrap(returned').hist.failed = <<>>
                     \/ /\ pc'[r] = "password_auth"
                        /\ hist'[r].methods = <<"publickey", "password">>
                        /\ hist'[r].failed \in
                              {<<o>> : o \in KeyAuthOutcomes \ {"accepted"}}
                        /\ hist'[r].attempt_error = hist[r].attempt_error
                        /\ conn'[r] = conn[r]
                ELSE \/ pc'[r] = "channel_open"
                     \/ /\ AttemptFails(r)
                        /\ LET e == Unwrap(FailedAttempt(r).attempt_error) IN
                           /\ e.kind = "Authentication"
                           /\ e.detail[1] \in KeyFailureTexts
                           /\ e.detail[1] =
                                 "Key authentication failed and no password provided."
                                 <=> FailedAttempt(r).failed = <<"rejected">>
          /\ pc[r] = "password_auth" /\ pc'[r] # "password_auth" =>
                \/ pc'[r] = "channel_open"
                \/ /\ AttemptFails(r)
                   /\ Unwrap(FailedAttempt(r).attempt_error).kind = "Authentication"
      ]_vars

C14_Witness ==
    \E r \in Requests :
        /\ pc[r] = "password_auth"
        /\ hist[r].failed = <<"load_error">>

\* text says that method was tried and that it failed the way outcome says:
\* only the key branch's messages and "Password auth failed: {e}" do; the
\* message after `if !auth_success` is the same whatever was tried
Explains(text, method, outcome) ==
    IF method = "publickey"
    THEN IF outcome = "rejected"
         THEN text = "Key authentication failed and no password provided."
         ELSE text = "Key authentication error: " \o outcome
    ELSE outcome = "auth_error" /\ text = "Password auth failed"

\* C15: whenever an attempt fails with an Authentication error, the error's
\* text identifies every method the attempt tried and why that method failed,
\* and says that no method is configured when none was tried.
C15_AuthFailureDiagnosed ==
    [][\A r \in Requests : AttemptFails(r) =>
          LET h == FailedAttempt(r)
              e == Unwrap(h.attempt_error)
          IN  e.kind = "Authentication" =>
                  /\ Len(h.failed) = Len(h.methods)
                  /\ h.methods = <<>> <=>
                        e.detail[1] = "No authentication method available"
                  /\ \A i \in 1..Len(h.methods) :
                        Explains(e.detail[1], h.methods[i], h.failed[i])
      ]_vars

\* the timeout a request was sent with is outside 1..300
OutOfRange(req) ==
    req.sent # None /\ (Unwrap(req.sent) < 1 \/ Unwrap(req.sent) > 300)

C17_GateBeforeSession ==
    [][/\ HandlerReturned' /\ Unwrap(returned').req.tool = "execute_read"
          /\ FirstToken(Unwrap(returned').req.command) \notin READ_ONLY_COMMANDS =>
             LET e == Unwrap(returned') IN
             /\ e.result.is_error
             /\ e.result.kind \in {"FirstRun", "Validation", "NotWhitelisted"}
             /\ ssh_client # None /\ ~OutOfRange(e.req) =>
                   /\ e.result.kind = "NotWhitelisted"
                   /\ e.result.detail[2] = FirstToken(e.req.command)
             /\ e.hist = NoHist
             /\ session' = session
             /\ is_closed' = is_closed
             /\ sessions' = sessions
       /\ HandlerReturned' /\ Unwrap(returned').result.kind = "NotWhitelisted" =>
             /\ Unwrap(returned').req.tool = "execute_read"
             /\ FirstToken(Unwrap(returned').req.command) \notin READ_ONLY_COMMANDS
       /\ \A r \in Requests :
             /\ HoldsGuard(r)' /\ request'[r].tool = "execute_read" =>
                   FirstToken(request'[r].command) \in READ_ONLY_COMMANDS
             /\ pc[r] = "lock" /\ pc'[r] = "done" /\ request[r].tool = "execute" =>
                   \/ ssh_client = None
                   \/ OutOfRange(Unwrap(returned').req)
      ]_vars

C17_Witness ==
    /\ HandlerReturned
    /\ Unwrap(returned).result.kind = "NotWhitelisted"
    /\ Unwrap(returned).req.command = cmd_rm
    /\ session # None
    /\ ~is_closed

\* execute runs a command execute_read refuses
C17_WitnessUnrestricted ==
    \E r \in Requests :
        /\ pc[r] = "drain"
        /\ request[r].tool = "execute"
        /\ request[r].command = cmd_rm

\* the characters s[i..j] as one string
RECURSIVE Word(_, _, _)
Word(s, i, j) == IF i > j THEN "" ELSE s[i] \o Word(s, i + 1, j)

\* s[i..j] is the first whitespace-delimited token of s
IsFirstToken(s, i, j) ==
    /\ \A k \in 1..(i - 1) : s[k] \in Whitespace
    /\ \A k \in i..j : s[k] \notin Whitespace
    /\ j = Len(s) \/ s[j + 1] \in Whitespace

\* some s[i..j] is the first token of s and is in the whitelist
FirstTokenWhitelisted(s) ==
    \E i \in 1..Len(s) : \E j \in i..Len(s) :
        IsFirstToken(s, i, j) /\ Word(s, i, j) \in READ_ONLY_COMMANDS

\* the latest step applied is_read_only to the command of request 1
GateApplied == returned # None /\ Unwrap(returned).fn = "is_read_only"

\* C18: is_read_only(command) is true exactly when command has a first
\* whitespace-delimited token and that token is in the whitelist; what follows
\* the token does not matter; it is true of "ls -la /sdcard", false of
\* "rm -rf /sdcard", false of the empty string and of strings of whitespace.
C18_FirstTokenDecides ==
    GateApplied =>
        LET command == Unwrap(returned).req.command
            value == Unwrap(returned).result.value
        IN  /\ value <=> FirstTokenWhitelisted(command)
            /\ value <=> is_read_only(command \o <<" ">> \o cmd_rm)
            /\ (\E k \in 1..Len(command) : command[k] \notin Whitespace) =>
                  (value <=> is_read_only(command \o <<"\t", "l", "s">>))
            /\ command = cmd_ls => value
            /\ command = cmd_rm => ~value
            /\ (\A k \in 1..Len(command) : command[k] \in Whitespace) => ~value

C18_Witness ==
    /\ GateApplied
    /\ Unwrap(returned).req.command = <<" ", "l", "s", "\t">>
    /\ Unwrap(returned).result.value

\* the number a string of decimal digits, with or without a minus sign, writes
RECURSIVE Number(_)
Number(digits) ==
    IF digits = <<>> THEN 0
    ELSE IF Head(digits) = 45 THEN 0 - Number(Tail(digits))
    ELSE Number(SubSeq(digits, 1, Len(digits) - 1)) * 10
             + (digits[Len(digits)] - 48)

\* s with a newline at its end
NewlineTerminated(s) == IF s[Len(s)] = 10 THEN s ELSE s \o <<10>>

\* text is the status line for exit_code: the success marker for 0 and only
\* for 0, otherwise the failure marker around the number in decimal
IsStatusLine(text, exit_code) ==
    IF exit_code = 0
    THEN text = SUCCESS_LINE
    ELSE /\ Len(text) > Len(FAILED_OPEN) + Len(FAILED_CLOSE)
         /\ IsPrefix(FAILED_OPEN, text)
         /\ text[Len(text)] = 41
         /\ Number(SubSeq(text, Len(FAILED_OPEN) + 1, Len(text) - 1)) = exit_code

\* the latest step returned a rendered CommandResult
Rendered == returned # None /\ Unwrap(returned).result.kind = "CommandResult"

\* C19: the text of a CommandResult is, in this order: stdout with a newline
\* at its end if it is not empty; the "stderr:" label line and stderr with a
\* newline at its end if and only if stderr is not empty; one status line,
\* the success marker exactly when the exit code is 0, else the failure marker
\* with the exit code in decimal.  A blank line stands between the parts.
\* With both streams empty the text is the status line alone, and stdout
\* "hello\n" with exit code 0 gives "hello\n\n" and the success marker.
C19_Rendering ==
    Rendered =>
        LET res == Unwrap(returned).result
            text == res.text
            out == IF res.stdout = <<>> THEN <<>> ELSE NewlineTerminated(res.stdout)
            err == IF res.stderr = <<>> THEN <<>>
                   ELSE STDERR_LABEL \o NewlineTerminated(res.stderr)
            body == IF out # <<>> /\ err # <<>> THEN out \o <<10>> \o err
                    ELSE out \o err
            status == SubSeq(text, Len(body) + (IF body = <<>> THEN 1 ELSE 2),
                             Len(text))
        IN  /\ IsPrefix(body, text)
            /\ body # <<>> => text[Len(body) + 1] = 10
            /\ IsStatusLine(status, res.exit_code)
            /\ res.stdout = <<>> /\ res.stderr = <<>> => IsStatusLine(text, res.exit_code)
            /\ res.stdout = <<104, 101, 108, 108, 111, 10>> /\ res.stderr = <<>>
                  /\ res.exit_code = 0 =>
                  text = <<104, 101, 108, 108, 111, 10, 10,
                           10003, 32, 83, 117, 99, 99, 101, 115, 115>>

C19_Witness ==
    /\ Rendered
    /\ Unwrap(returned).result.stdout = <<104, 101, 108, 108, 111, 10>>
    /\ Unwrap(returned).result.stderr = <<101>>
    /\ Unwrap(returned).result.exit_code = 127

\* C20: a drain that is over inside its deadline gives a CommandResult and the
\* handler a success result, whatever the exit code; an error result is
\* never about an exit code: it is a rejection before execute_command (no
\* client configured, timeout out of range, command not whitelisted), a
\* connect() that gave up, a channel that could not be opened or started, or
\* a deadline that passed, and in each case no drain was completed.
C20_ExitCodeIsData ==
    HandlerReturned =>
        LET e == Unwrap(returned) IN
        /\ e.hist.last # None =>
              /\ ~e.result.is_error
              /\ e.result.kind = "CommandResult"
              /\ e.result.exit_code =
                    (IF e.hist.status = None THEN 0 ELSE AsI32(Unwrap(e.hist.status)))
        /\ ~e.result.is_error <=> e.result.kind = "CommandResult"
        /\ e.result.is_error =>
              /\ e.hist.last = None
              /\ e.hist.locals = None
              /\ \/ /\ e.result.kind \in {"FirstRun", "Validation", "NotWhitelisted"}
                    /\ e.hist = NoHist
                 \/ /\ e.result.kind \in ConnectionErrors
                    /\ e.hist.tries = MAX_RETRIES
                    /\ e.hist.made = None
                 \/ /\ e.result.kind = "CommandExecution"
                    /\ e.result.detail \in {<<"Failed to open channel">>,
                                            <<"Failed to exec command">>}
                    /\ e.hist.drained = 0
                 \/ /\ e.result.kind = "Timeout"
                    /\ e.hist.tries = 0

C20_Witness ==
    /\ HandlerReturned
    /\ ~Unwrap(returned).result.is_error
    /\ Unwrap(returned).result.exit_code = 127
    /\ Unwrap(returned).result.stderr # <<>>

\* kinds of the error results a handler returns: the three rejections before
\* execute_command and the SshMcpError kinds execute_command fails with
FailureKinds ==
    {"FirstRun", "Validation", "NotWhitelisted", "SshConnection",
     "Authentication", "CommandExecution", "Timeout"}

\* where a request's handler can be
HandlerPcs == {"idle", "lock", "done"} \cup ConnectPcs \cup ExecPcs

\* the handler of the request at the head of the lock's queue can go on
NextIsServed ==
    waiters # <<>> => pc[Head(waiters)] = "lock" /\ LockAcquire(Head(waiters))

\* C21: every failure during a request comes back to the caller as an error
\* result of a known kind with its text, from a handler that has returned: a
\* connect() that gave up comes back as the error of its last attempt, a
\* request with no client configured as the first-run message; no request is
\* ever anywhere but in its handler or done; and after a failure the lock is
\* free, so that the request waiting for it is served next.
C21_FailuresReturned ==
    /\ \A r \in Requests : pc[r] \in HandlerPcs
    /\ HandlerReturned =>
          LET e == Unwrap(returned) IN
          /\ pc[e.request] = "done"
          /\ e.result.is_error =>
                /\ e.result.kind \in FailureKinds
                /\ e.result.detail # <<>>
                /\ permits = 1
                /\ \A r \in Requests : ~HoldsGuard(r)
                /\ NextIsServed
          /\ ssh_client = None => e.result.is_error /\ e.result.kind = "FirstRun"
          /\ e.hist.tries > 0 /\ e.hist.made = None =>
                /\ e.result.is_error
                /\ e.result.kind = Unwrap(e.hist.attempt_error).kind
          /\ e.hist.made # None \/ SeenOpen(e.hist) =>
                \/ e.result.kind \in {"CommandExecution", "Timeout"} /\ e.result.is_error
                \/ e.result.kind = "CommandResult" /\ ~e.result.is_error

C21_Witness ==
    /\ HandlerReturned
    /\ Unwrap(returned).result.is_error
    /\ Unwrap(returned).result.kind = "CommandExecution"
    /\ Unwrap(returned).request = 1
    /\ waiters = <<2>>

\* the latest step returned from setup
SetupReturned == returned # None /\ Unwrap(returned).fn = "setup"

\* no request is inside execute_command, before or after the step
NobodyInside == \A r \in Requests : ~HoldsGuard(r) /\ ~HoldsGuard(r)'

\* C22: no connection is attempted outside a command request.  Before the
\* first tool call there is no session and nothing has been attempted; the
\* slot and the count of sessions change only in a step of an execute or
\* execute_read request that is in execute_command; while no request is
\* there, a handle that has gone stale just stays; setup changes nothing of
\* the client.  Each execute_command looks at the slot once, when it starts,
\* calls connect() once if the slot is empty or stale and not at all
\* otherwise, and is past that before it opens its channel.
C22_LazyConnect ==
    [][/\ calls = 0 =>
             /\ session = None
             /\ sessions = 0
             /\ \A r \in Requests : pc[r] = "idle" /\ hist[r] = NoHist
       /\ session' # session \/ sessions' # sessions =>
             \E r \in Requests :
                 /\ request'[r].tool \in Tools \/ request[r].tool \in Tools
                 /\ pc[r] = "lock" \/ pc[r] \in ConnectPcs
                 /\ HoldsGuard(r)'
       /\ \A r \in Requests : pc'[r] \in ConnectPcs => request'[r].tool \in Tools
       /\ NobodyInside => session' = session /\ sessions' = sessions
       /\ SetupReturned' =>
             UNCHANGED <<ssh_client, session, is_closed, sessions, permits,
                         waiters, hist, conn, chan>>
       /\ \A r \in Requests :
             /\ pc[r] = "lock" /\ HoldsGuard(r)' =>
                   /\ hist'[r].seen =
                          Some([session |-> session, is_closed |-> is_closed])
                   /\ hist'[r].connects =
                          IF session # None /\ ~is_closed THEN 0 ELSE 1
             /\ HoldsGuard(r) /\ HoldsGuard(r)' =>
                   /\ hist'[r].seen = hist[r].seen
                   /\ hist'[r].connects = hist[r].connects
             /\ pc'[r] \in ExecPcs => hist'[r].seen # None
      ]_vars

C22_Witness ==
    /\ SetupReturned
    /\ Unwrap(returned).result.kind = "SetupSaved"
    /\ session # None
    /\ is_closed
    /\ sessions = 1

\* the latest step returned the server's instructions
InfoReturned == returned # None /\ Unwrap(returned).fn = "get_info"

\* C23: the whitelist the gate uses has exactly 81 names, the number the
\* instructions give, and they are the names the instructions list.
C23_WhitelistAsDocumented ==
    InfoReturned =>
        /\ Cardinality(READ_ONLY_COMMANDS) = 81
        /\ Unwrap(returned).result.total = Cardinality(READ_ONLY_COMMANDS)
        /\ Unwrap(returned).result.whitelisted = READ_ONLY_COMMANDS

\* the step is disconnect() taking the handle out of the slot
DisconnectStep ==
    \E r \in Requests :
        pc[r] = "lock" /\ request[r].tool = "disconnect" /\ pc'[r] = "disconnect"

\* the step is ensure_connected dropping the handle it found and connecting
DiscardStep ==
    \E r \in Requests :
        pc[r] = "lock" /\ request'[r].tool \in Tools /\ pc'[r] \in ConnectPcs

\* C24: the slot holds at most one session, the latest one established, and a
\* new one is established only into an empty slot.  A session that reports
\* itself open leaves the slot in no step but disconnect()'s; when
\* ensure_connected empties the slot, the handle reported itself closed; and
\* a command that returns from its channel, with a result, an error or a
\* Timeout, leaves the slot holding the session it held.
C24_OpenSessionKept ==
    [][/\ session # None => session = Some(sessions)
       /\ sessions' # sessions =>
             /\ session = None
             /\ sessions' = sessions + 1
             /\ session' = Some(sessions')
       /\ session # None /\ ~is_closed /\ session' # session => DisconnectStep
       /\ session # None /\ session' # session /\ ~DisconnectStep =>
             is_closed /\ DiscardStep /\ session' = None
       /\ \A r \in Requests : pc[r] \in ExecPcs /\ pc'[r] = "done" =>
             /\ Unwrap(returned').result.kind \in
                   {"CommandResult", "CommandExecution", "Timeout"}
             /\ session' = session
             /\ session' # None
             /\ is_closed' = is_closed
      ]_vars

C24_Witness ==
    /\ HandlerReturned
    /\ Unwrap(returned).result.kind = "CommandExecution"
    /\ SeenOpen(Unwrap(returned).hist)
    /\ session = Some(1)
    /\ ~is_closed

\* the latest step returned from disconnect()
DisconnectReturned == returned # None /\ Unwrap(returned).fn = "disconnect"

\* C25: disconnect() leaves the slot empty and never returns an error.  When
\* a session is held it takes the handle out of the slot before it sends the
\* close notification, sends that once, and returns the same whether the
\* notification failed or not; when none is held it sends nothing and
\* changes nothing, so a second disconnect() after a first does nothing; the
\* command that takes the client next finds the slot empty and starts
\* connect() at its first attempt.
C25_DisconnectClears ==
    [][/\ DisconnectReturned' =>
             LET e == Unwrap(returned') IN
             /\ session' = None
             /\ ~is_closed'
             /\ ~e.result.is_error
             /\ e.result.kind = "Ok"
             /\ permits' = 1
             /\ sessions' = sessions
             /\ e.result.notified = IF e.hist.seen = None THEN 0 ELSE 1
             /\ e.result.failed => e.result.notified = 1
       /\ \A r \in Requests :
             /\ pc'[r] = "disconnect" =>
                   /\ session' = None
                   /\ hist'[r].seen # None
                   /\ Unwrap(hist'[r].seen).session # None
             /\ pc[r] = "lock" /\ request[r].tool = "disconnect"
                   /\ pc'[r] # "lock" =>
                   IF session = None
                   THEN /\ pc'[r] = "done"
                        /\ Unwrap(returned').result.notified = 0
                        /\ UNCHANGED <<session, is_closed, sessions, permits>>
                   ELSE /\ pc'[r] = "disconnect"
                        /\ Unwrap(hist'[r].seen).session = session
             /\ DisconnectReturned /\ pc[r] = "lock" /\ pc'[r] # "lock" =>
                   IF request[r].tool = "disconnect"
                   THEN /\ pc'[r] = "done"
                        /\ Unwrap(returned').result.notified = 0
                        /\ UNCHANGED <<session, is_closed, sessions, permits>>
                   ELSE HoldsGuard(r)' =>
                        /\ pc'[r] = "transport"
                        /\ SeenAbsent(hist'[r])
                        /\ hist'[r].connects = 1
                        /\ conn'[r] = [attempt |-> 1, last_error |-> None]
      ]_vars

C25_Witness ==
    /\ DisconnectReturned
    /\ Unwrap(returned).result.notified = 1
    /\ Unwrap(returned).result.failed
    /\ SeenOpen(Unwrap(returned).hist)
    /\ session = None
    /\ \E r \in Requests : pc[r] = "lock" /\ request[r].tool = "disconnect"

\* r's call is at exec_command_inner before its drain and returns in the step
\* because the channel could not be opened or the exec could not be sent
ChannelFails(r) ==
    pc[r] \in {"channel_open", "exec"} /\ ~expired[r] /\ pc'[r] = "done"

\* C26: an execute_command that is past ensure_connected has called
\* channel_open_session once, and channel.exec once when that gave it a
\* channel and not otherwise; its accumulators start empty and no other call
\* is at a channel while it is; so a call that returns a CommandResult opened
\* one channel and sent one exec.  When the channel cannot be opened or the
\* exec cannot be sent, the call returns CommandExecution, having drained
\* nothing, and the slot and the handle are as they were.
C26_OneChannelPerCall ==
    [][\A r \in Requests :
          /\ pc'[r] \in ExecPcs =>
                /\ hist'[r].channels = 1
                /\ hist'[r].execs = IF pc'[r] = "channel_open" THEN 0 ELSE 1
                /\ pc'[r] # "drain" => chan'[r] = NoChan /\ hist'[r].drained = 0
                /\ \A r2 \in Requests \ {r} :
                      /\ pc'[r2] \notin ExecPcs
                      /\ hist'[r2].channels = 0
                      /\ chan'[r2] = NoChan
          /\ pc'[r] \notin ExecPcs => hist'[r].channels = 0 /\ hist'[r].execs = 0
          /\ pc[r] \notin ExecPcs /\ pc'[r] \in ExecPcs =>
                pc'[r] = "channel_open" /\ chan'[r] = NoChan
          /\ pc[r] \in ExecPcs /\ pc'[r] = "done" =>
                LET e == Unwrap(returned') IN
                /\ e.hist.channels = 1
                /\ e.hist.execs <= 1
                /\ e.result.kind = "CommandResult" => e.hist.execs = 1
          /\ ChannelFails(r) =>
                LET e == Unwrap(returned') IN
                /\ e.result.is_error
                /\ e.result.kind = "CommandExecution"
                /\ e.result.detail =
                      IF pc[r] = "channel_open" THEN <<"Failed to open channel">>
                      ELSE <<"Failed to exec command">>
                /\ e.hist.execs = IF pc[r] = "channel_open" THEN 0 ELSE 1
                /\ e.hist.drained = 0
                /\ e.hist.locals = None
                /\ chan[r] = NoChan
                /\ UNCHANGED <<session, is_closed, sessions>>
      ]_vars

C26_Witness ==
    /\ HandlerReturned
    /\ Unwrap(returned).result.kind = "CommandExecution"
    /\ Unwrap(returned).result.detail = <<"Failed to exec command">>
    /\ Unwrap(returned).hist.channels = 1
    /\ Unwrap(returned).hist.execs = 1
    /\ session # None
    /\ ~is_closed

\* the latest step ran the drain loop over the messages of request 1
Drained == returned # None /\ Unwrap(returned).fn = "drain"

\* msg is stdout data / extended data marked as stderr
IsStdout(msg) == msg.msg = "Data"
IsStderr(msg) == msg.msg = "ExtendedData" /\ msg.ext = 1

\* the bytes of the messages of events, in their order
RECURSIVE Bytes(_)
Bytes(events) ==
    IF events = <<>> THEN <<>> ELSE Head(events).data \o Bytes(Tail(events))

\* the stdout / stderr bytes of the messages of events, in their order
StdoutBytes(events) == Bytes(SelectSeq(events, IsStdout))
StderrBytes(events) == Bytes(SelectSeq(events, IsStderr))

\* events has an end-of-stream and an exit-status among its first k messages
BothSeen(events, k) ==
    /\ \E i \in 1..k : events[i].msg = "Eof"
    /\ \E i \in 1..k : events[i].msg = "ExitStatus"

\* msg is of a kind the loop has an arm for, extended data only with marker 1
Counts(msg) ==
    \/ msg.msg \in {"Data", "ExitStatus", "Eof"}
    \/ IsStderr(msg)

\* C27: the drain consumes the messages up to the first point at which both
\* an end-of-stream and an exit-status have arrived, or all of them; of what
\* it consumed, stdout is the bytes of the stdout data messages in arrival
\* order and nothing else, stderr the bytes of the extended data marked 1 in
\* arrival order and nothing else; and the same messages without the
\* extended data of other markers and the other kinds of message give the
\* same stdout, stderr and exit code.
C27_OutputInArrivalOrder ==
    Drained =>
        LET e == Unwrap(returned)
            events == e.req.events
            n == e.hist.drained
            observed == SubSeq(events, 1, n)
            c == Unwrap(e.hist.locals)
            kept == SelectSeq(events, Counts)
        IN  /\ n <= Len(events)
            /\ n < Len(events) => BothSeen(events, n)
            /\ \A k \in 0..(n - 1) : ~BothSeen(events, k)
            /\ c.stdout = StdoutBytes(observed)
            /\ c.stderr = StderrBytes(observed)
            /\ e.result.stdout = from_utf8_lossy(StdoutBytes(observed))
            /\ e.result.stderr = from_utf8_lossy(StderrBytes(observed))
            /\ drain(NoChan, kept).locals = c
            /\ ToolSuccess(CommandResult(drain(NoChan, kept).locals)) = e.result

C27_Witness ==
    /\ Drained
    /\ Unwrap(returned).req.events =
           <<[msg |-> "Data", data |-> <<10>>],
             [msg |-> "ExtendedData", data |-> <<101>>, ext |-> 2],
             [msg |-> "Data", data |-> <<104>>]>>
    /\ Unwrap(returned).result.stdout = <<10, 104>>
    /\ Unwrap(returned).result.stderr = <<>>

\* C28: when a call returns because its connect() gave up, the slot is empty,
\* whether the call found it empty or found a closed handle in it; the call
\* opened no channel, sent no exec and drained nothing, and its error is a
\* connection or authentication error; a closed handle is out of the slot
\* for as long as the connect() that replaces it runs.  The request that
\* takes the client next finds the slot empty and enters connect() at attempt
\* 1 with no error carried over, and it too gives up only after MAX_RETRIES
\* attempts.
C28_ExhaustedLeavesAbsent ==
    [][/\ ConnectFailed' =>
             LET e == Unwrap(returned') IN
             /\ session' = None
             /\ ~is_closed'
             /\ sessions' = sessions
             /\ permits' = 1
             /\ e.result.is_error
             /\ e.result.kind \in ConnectionErrors
             /\ e.hist.tries = MAX_RETRIES
             /\ e.hist.made = None
             /\ e.hist.channels = 0
             /\ e.hist.execs = 0
             /\ e.hist.drained = 0
             /\ e.hist.locals = None
             /\ SeenClosed(e.hist) \/ SeenAbsent(e.hist)
       /\ \A r \in Requests :
             /\ pc'[r] \in ConnectPcs =>
                   /\ session' = None
                   /\ hist'[r].channels = 0
                   /\ chan'[r] = NoChan
             /\ ConnectFailed /\ pc[r] = "lock" /\ HoldsGuard(r)' =>
                   /\ pc'[r] = "transport"
                   /\ SeenAbsent(hist'[r])
                   /\ hist'[r].connects = 1
                   /\ hist'[r].tries = 0
                   /\ hist'[r].slept = 0
                   /\ conn'[r] = [attempt |-> 1, last_error |-> None]
      ]_vars

C28_Witness ==
    /\ ConnectFailed
    /\ SeenClosed(Unwrap(returned).hist)
    /\ Unwrap(returned).hist.tries = MAX_RETRIES
    /\ session = None
    /\ sessions = 1

\* C29: the deadline of a call runs only while the call is at its channel:
\* it has not passed when the call gets there, however long connect() took, it
\* never passes before, and it can pass at the channel open, at the exec and
\* in the drain alike, after which the call does nothing but return Timeout.
\* A call that returns out of connect() returns the connection or
\* authentication error of its last attempt, never Timeout; a Timeout is
\* returned only by a call that was past ensure_connected.
C29_DeadlineAfterConnect ==
    [][\A r \in Requests :
          /\ pc'[r] \notin ExecPcs => ~expired'[r]
          /\ pc[r] \notin ExecPcs /\ pc'[r] \in ExecPcs =>
                pc'[r] = "channel_open" /\ ~expired'[r]
          /\ pc[r] \in ConnectPcs \cup {"lock"} /\ pc'[r] = "done" =>
                LET e == Unwrap(returned') IN
                /\ e.result.kind # "Timeout"
                /\ pc[r] \in ConnectPcs =>
                      /\ e.result.kind \in ConnectionErrors
                      /\ e.result.kind = Unwrap(e.hist.attempt_error).kind
                      /\ e.result.detail = Unwrap(e.hist.attempt_error).detail
          /\ TimedOut' /\ Unwrap(returned').request = r =>
                /\ pc[r] \in ExecPcs
                /\ expired[r]
                /\ Unwrap(returned').hist.channels = 1
                /\ Unwrap(returned').hist.tries = 0
                /\ Unwrap(returned').hist.attempt_error = None
          /\ pc[r] \in ExecPcs /\ expired[r] /\ pc'[r] # pc[r] =>
                TimedOut' /\ Unwrap(returned').request = r
      ]_vars

C29_Witness ==
    /\ TimedOut
    /\ Unwrap(returned).req.timeout = 1
    /\ Unwrap(returned).hist.connects = 1
    /\ Unwrap(returned).hist.execs = 0
    /\ SeenClosed(Unwrap(returned).hist)

\* r's handler, execute or execute_read, runs in this step from the lock to
\* its first await that suspends, or to its return
HandlerStep(r) ==
    pc[r] = "lock" /\ request[r].tool \in Tools /\ pc'[r] # "lock"

\* the ExecuteRequest r's handler was called with, in the step it reads it
StepRequest(r) ==
    IF pc'[r] = "done" THEN Unwrap(returned').req ELSE request'[r]

\* C30: on a command that passes the whitelist, with any timeout, a step of
\* either handler is a step of the other handler's body on the same request
\* from the same state: the same rejection with the same text and nothing
\* touched, or the same entry into execute_command with the same look at the
\* slot, the same discard of a stale handle and the same connect() or channel
\* open; from there on both are in the one execute_command and return through
\* the same rendering.
C30_SameOnWhitelisted ==
    [][\A r \in Requests :
          HandlerStep(r) /\ is_read_only(StepRequest(r).command) =>
              /\ execute_read_body(r, StepRequest(r))
              /\ execute_body(r, StepRequest(r))
      ]_vars

C30_Witness ==
    /\ HandlerReturned
    /\ Unwrap(returned).req.tool = "execute"
    /\ Unwrap(returned).req.command = cmd_ls
    /\ Unwrap(returned).req.sent = Some(MAX_TIMEOUT)
    /\ Unwrap(returned).result.kind = "CommandResult"
    /\ SeenClosed(Unwrap(returned).hist)

\* the config file no longer holds what it held when main() started the
\* service: a setup has saved a config since
SavedSinceStartup == config_file # config_on_disk(ssh_client)

\* C31: setup never changes the in-memory client.  A step of setup leaves
\* the client, its session slot and the lock as they were, also when it saves
\* a config; the descriptor the service was constructed with is never
\* replaced.  A service started with no descriptor never gets a session and
\* never attempts one, and every execute and execute_read request it is sent
\* returns the setup-required error without any session operation, whatever
\* the config file holds by then.  A service started with a descriptor never
\* returns that error, and its connection attempts authenticate with the
\* methods of that descriptor, whatever the config file holds by then.
C31_SetupLeavesClient ==
    [][/\ SetupReturned' =>
             UNCHANGED <<ssh_client, session, is_closed, sessions, permits,
                         waiters>>
       /\ ssh_client' = ssh_client
       /\ ssh_client = None =>
             /\ session' = None /\ sessions' = 0
             /\ \A r \in Requests : ~HoldsGuard(r)'
             /\ HandlerReturned' =>
                   /\ Unwrap(returned').result.is_error
                   /\ Unwrap(returned').result.kind = "FirstRun"
                   /\ Unwrap(returned').hist = NoHist
       /\ ssh_client # None =>
             /\ HandlerReturned' => Unwrap(returned').result.kind # "FirstRun"
             /\ \A r \in Requests :
                   /\ pc'[r] = "key_auth" => Unwrap(ssh_client).key_path
                   /\ pc'[r] = "password_auth" => Unwrap(ssh_client).password
      ]_vars

C31_Witness ==
    /\ ssh_client = None
    /\ SavedSinceStartup
    /\ config_file.host = "192.168.1.101"
    /\ HandlerReturned
    /\ Unwrap(returned).req.tool = "execute_read"
    /\ Unwrap(returned).req.command = cmd_ls
    /\ Unwrap(returned).result.kind = "FirstRun"
    /\ session = None

\* r's handler has been called and has not returned
InFlight(r) == pc[r] \notin {"idle", "done"}

\* C32: with connect and authentication round-trips that return, every
\* execute and execute_read request that was sent eventually returns, and
\* every request waiting for the lock eventually gets it; whenever no request
\* is inside execute_command the lock is free, whichever way the requests
\* before returned, and a request that has returned is not in the queue.
C32_EveryRequestReturns ==
    /\ [](((\A r \in Requests : ~HoldsGuard(r)) => permits = 1)
          /\ (\A r \in Requests : pc[r] = "done" =>
                  \A i \in 1..Len(waiters) : waiters[i] # r))
    /\ \A r \in Requests :
          /\ InFlight(r) ~> pc[r] = "done"
          /\ pc[r] = "lock" ~> (HoldsGuard(r) \/ pc[r] = "done")

C32_Witness ==
    /\ HandlerReturned
    /\ Unwrap(returned).request = 2
    /\ Unwrap(returned).result.kind = "Timeout"
    /\ Unwrap(returned).hist.connects = 1
    /\ pc[1] = "done"
    /\ pc[2] = "done"
    /\ permits = 1
    /\ waiters = <<>>

====
